---- MODULE Spec2Model ----
(***************************************************************************)
(* Model of the money_manager ledger engine (src-tauri/src/commands).      *)
(* Money is counted in thousandths of the currency unit (mills), so that   *)
(* the 0.01 tolerance of the statement sweep is 10 units.  Dates are the   *)
(* integers yyyymmdd, which order exactly as the ISO strings the store     *)
(* compares.  NULL (0) stands for SQL NULL / Option::None.                 *)
(***************************************************************************)
EXTENDS Integers, Sequences, FiniteSets, TLC

\* ------------------------------------------------------------------ bounds
MaxTxns == 3
MaxStatements == 2
MaxPlans == 1

\* ------------------------------------------------------- program constants
NULL == 0
Cent == 10
PaidTolerance == 10
DefaultMinPaymentPct == 5
DueFallbackDays == 30
FallbackDay == 28

\* ------------------------------------------------------------ environment
\* Days on which the application is used (values of Local::now()).
Days == {20250105, 20250115, 20250215}
FirstDay == CHOOSE d \in Days : \A e \in Days : d <= e
\* Row ids: the two accounts and the category that exist, and ids that do not.
Ids == [bank |-> 1, card |-> 2, food |-> 1, card_settings |-> 1, ghost |-> 9,
        old_bank |-> 7, old_card |-> 8, old_food |-> 4,
        groceries |-> 2, organic |-> 3, salary |-> 4]
BankAccount == Ids.bank
CardAccount == Ids.card
GhostAccount == Ids.ghost
FoodCategory == Ids.food
GhostCategory == Ids.ghost

VARIABLES accounts, categories, transactions, journal_entries, txn_seq, je_seq,
          settings, statements, stmt_seq, plans, payments, plan_seq, pay_seq,
          exchange_rates, rate_seq, snapshots, snap_seq,
          cat_seq, budgets, budget_seq,
          calls, recurring_transactions, rec_seq, app_settings, now, guesses,
          today, last_result

vars == <<accounts, categories, transactions, journal_entries, txn_seq, je_seq,
          settings, statements, stmt_seq, plans, payments, plan_seq, pay_seq,
          exchange_rates, rate_seq, snapshots, snap_seq,
          cat_seq, budgets, budget_seq,
          calls, recurring_transactions, rec_seq, app_settings, now, guesses,
          today, last_result>>

StoreVars == <<accounts, categories, transactions, journal_entries, txn_seq, je_seq,
               settings, statements, stmt_seq, plans, payments, plan_seq, pay_seq,
               exchange_rates, rate_seq, snapshots, snap_seq,
               cat_seq, budgets, budget_seq, calls,
               recurring_transactions, rec_seq, app_settings, now, guesses>>

\* The commands in flight (settle_credit_card futures between two awaits):
\* none at start.
SettleCalls == 1..2
IdleCall == [pc |-> "idle", input |-> [none |-> TRUE], payment_amount |-> 0, paid_date |-> 0,
             transaction_id |-> 0, rows |-> <<>>, remaining_payment |-> 0]
NoCalls == [c \in SettleCalls |-> IdleCall]

\* The recurring_transactions table with its AUTOINCREMENT counter.
Schedules == <<recurring_transactions, rec_seq>>

\* The PIN keys of app_settings, the UTC clock in seconds, and the count of
\* incorrect guesses compared with the stored hash since the last lockout.
Security == <<app_settings, now, guesses>>

\* get_setting answers the empty string for a key that has no row.
NoPin == [pin_hash |-> <<>>, pin_enabled |-> "", failed_attempts |-> 0, lockout_until |-> 0]

\* ---------------------------------------------------------------- helpers
Min(a, b) == IF a <= b THEN a ELSE b
Max(a, b) == IF a >= b THEN a ELSE b
Abs(a) == IF a < 0 THEN 0 - a ELSE a

\* Sum of f[x] over the rows x of S (SQL SUM / COALESCE(SUM, 0)).
RECURSIVE SumOver(_, _)
SumOver(S, f) ==
  IF S = {} THEN 0
  ELSE LET x == CHOOSE y \in S : TRUE IN f[x] + SumOver(S \ {x}, f)

\* f64::round on the quotient n/d (d > 0): half away from zero.
RoundDiv(n, d) ==
  IF n >= 0 THEN (2 * n + d) \div (2 * d) ELSE 0 - ((2 * (0 - n) + d) \div (2 * d))

\* (x * 100.0).round() / 100.0 for x given as the quotient n/d of mills.
RoundToCents(n, d) == RoundDiv(n, d * Cent) * Cent

\* --------------------------------------------------------------- calendar
Year(d) == d \div 10000
Month(d) == (d \div 100) % 100
Day(d) == d % 100
IsLeap(y) == (y % 4 = 0 /\ y % 100 # 0) \/ y % 400 = 0
DaysInMonth(y, m) ==
  IF m = 2 THEN (IF IsLeap(y) THEN 29 ELSE 28)
  ELSE IF m \in {4, 6, 9, 11} THEN 30 ELSE 31

\* NaiveDate::from_ymd_opt: NULL when the day does not exist.
FromYmdOpt(y, m, d) ==
  IF m >= 1 /\ m <= 12 /\ d >= 1 /\ d <= DaysInMonth(y, m)
  THEN y * 10000 + m * 100 + d ELSE NULL

SuccDay(d) ==
  IF Day(d) < DaysInMonth(Year(d), Month(d)) THEN d + 1
  ELSE IF Month(d) < 12 THEN Year(d) * 10000 + (Month(d) + 1) * 100 + 1
  ELSE (Year(d) + 1) * 10000 + 101

MonthIndex(d) == Year(d) * 12 + Month(d)

PredDay(d) ==
  IF Day(d) > 1 THEN d - 1
  ELSE IF Month(d) > 1
       THEN Year(d) * 10000 + (Month(d) - 1) * 100 + DaysInMonth(Year(d), Month(d) - 1)
       ELSE (Year(d) - 1) * 10000 + 1231

RECURSIVE AddDays(_, _)
AddDays(d, n) ==
  LET left == DaysInMonth(Year(d), Month(d)) - Day(d)
      first_of_next == IF Month(d) < 12 THEN Year(d) * 10000 + (Month(d) + 1) * 100 + 1
                       ELSE (Year(d) + 1) * 10000 + 101
  IN IF n <= left THEN d + n ELSE AddDays(first_of_next, n - left - 1)

make_date(year, month, day) ==
  IF FromYmdOpt(year, month, day) # NULL THEN FromYmdOpt(year, month, day)
  ELSE FromYmdOpt(year, month, FallbackDay)

\* The cycle that ends this month is taken only strictly before statement_day.
compute_current_cycle_dates_StrictlyBefore(t, statement_day) ==
  IF Day(t) < statement_day
  THEN LET cycle_end == make_date(Year(t), Month(t), statement_day)
           prev_month == IF Month(t) = 1
                         THEN FromYmdOpt(Year(t) - 1, 12, statement_day)
                         ELSE FromYmdOpt(Year(t), Month(t) - 1, statement_day)
           cycle_start == IF prev_month # NULL THEN SuccDay(prev_month) ELSE t
       IN <<cycle_start, cycle_end>>
  ELSE LET cycle_start == SuccDay(make_date(Year(t), Month(t), statement_day))
           next_month == IF Month(t) = 12
                         THEN FromYmdOpt(Year(t) + 1, 1, statement_day)
                         ELSE FromYmdOpt(Year(t), Month(t) + 1, statement_day)
           cycle_end == IF next_month # NULL THEN next_month ELSE t
       IN <<cycle_start, cycle_end>>

compute_current_cycle_dates(t, statement_day) ==
  IF Day(t) <= statement_day
  THEN LET cycle_end == make_date(Year(t), Month(t), statement_day)
           prev_month == IF Month(t) = 1
                         THEN FromYmdOpt(Year(t) - 1, 12, statement_day)
                         ELSE FromYmdOpt(Year(t), Month(t) - 1, statement_day)
           cycle_start == IF prev_month # NULL THEN SuccDay(prev_month) ELSE t
       IN <<cycle_start, cycle_end>>
  ELSE LET cycle_start == SuccDay(make_date(Year(t), Month(t), statement_day))
           next_month == IF Month(t) = 12
                         THEN FromYmdOpt(Year(t) + 1, 1, statement_day)
                         ELSE FromYmdOpt(Year(t), Month(t) + 1, statement_day)
           cycle_end == IF next_month # NULL THEN next_month ELSE t
       IN <<cycle_start, cycle_end>>

compute_due_date(statement_date, payment_due_day) ==
  LET next_month == IF Month(statement_date) = 12
                    THEN FromYmdOpt(Year(statement_date) + 1, 1, payment_due_day)
                    ELSE FromYmdOpt(Year(statement_date), Month(statement_date) + 1,
                                    payment_due_day)
  IN IF next_month # NULL THEN next_month ELSE AddDays(statement_date, DueFallbackDays)

\* ------------------------------------------------------------------ store
\* The tables a handler reads and writes, as one value.
DB == [accounts |-> accounts, categories |-> categories,
       transactions |-> transactions, journal_entries |-> journal_entries,
       txn_seq |-> txn_seq, je_seq |-> je_seq,
       settings |-> settings, statements |-> statements, stmt_seq |-> stmt_seq,
       plans |-> plans, payments |-> payments,
       plan_seq |-> plan_seq, pay_seq |-> pay_seq,
       exchange_rates |-> exchange_rates, rate_seq |-> rate_seq,
       snapshots |-> snapshots, snap_seq |-> snap_seq,
       cat_seq |-> cat_seq, budgets |-> budgets, budget_seq |-> budget_seq]

CommitStore(db) ==
  /\ accounts' = db.accounts
  /\ categories' = db.categories
  /\ transactions' = db.transactions
  /\ journal_entries' = db.journal_entries
  /\ txn_seq' = db.txn_seq
  /\ je_seq' = db.je_seq
  /\ settings' = db.settings
  /\ statements' = db.statements
  /\ stmt_seq' = db.stmt_seq
  /\ plans' = db.plans
  /\ payments' = db.payments
  /\ plan_seq' = db.plan_seq
  /\ pay_seq' = db.pay_seq
  /\ exchange_rates' = db.exchange_rates
  /\ rate_seq' = db.rate_seq
  /\ snapshots' = db.snapshots
  /\ snap_seq' = db.snap_seq
  /\ cat_seq' = db.cat_seq
  /\ budgets' = db.budgets
  /\ budget_seq' = db.budget_seq

\* A command that runs from its first to its last store access with no other
\* command in between.
Commit(db) == CommitStore(db) /\ UNCHANGED <<calls, Schedules, Security>>

\* One store write.  Inserts take the next AUTOINCREMENT id of their table.
ApplyWrite(db, w) ==
  CASE w.op = "ins_txn" ->
         [db EXCEPT !.transactions = @ \cup {w.row}, !.txn_seq = w.row.id]
    [] w.op = "ins_je" ->
         [db EXCEPT !.journal_entries = @ \cup {w.row}, !.je_seq = w.row.id]
    [] w.op = "ins_stmt" ->
         [db EXCEPT !.statements = @ \cup {w.row}, !.stmt_seq = w.row.id]
    [] w.op = "upd_stmt" ->
         [db EXCEPT !.statements = {s \in @ : s.id # w.row.id} \cup {w.row}]
    [] w.op = "ins_plan" ->
         [db EXCEPT !.plans = @ \cup {w.row}, !.plan_seq = w.row.id]
    [] w.op = "upd_plan" ->
         [db EXCEPT !.plans = {p \in @ : p.id # w.row.id} \cup {w.row}]
    [] w.op = "ins_pay" ->
         [db EXCEPT !.payments = @ \cup {w.row}, !.pay_seq = w.row.id]

RECURSIVE ApplyWrites(_, _, _)
ApplyWrites(db, writes, k) ==
  IF k = 0 \/ writes = <<>> THEN db
  ELSE ApplyWrites(ApplyWrite(db, Head(writes)), Tail(writes), k - 1)

\* Number of writes that persist out of n.  fail = 0: no store error;
\* fail = k: the k-th store call of the unit returns an error.
\* Inside pool.begin() .. tx.commit() (commit is call n + 1) an error drops
\* the sqlx transaction, which rolls everything back.
TxPersistedNoRollback(fail, n) == IF fail = 0 \/ fail > n THEN n ELSE fail - 1

TxPersisted(fail, n) == IF fail = 0 \/ fail > n + 1 THEN n ELSE 0

TxFailed(fail, n) == fail # 0 /\ fail <= n + 1

\* Statements executed directly on the pool auto-commit one by one.
PoolPersisted(fail, n) == IF fail = 0 \/ fail > n THEN n ELSE fail - 1

PoolFailed(fail, n) == fail # 0 /\ fail <= n

\* What the last command was asked and what it answered.
NoInput == [none |-> TRUE]
Result(op, input, ok, err, id) ==
  [op |-> op, input |-> input, ok |-> ok, err |-> err, id |-> id]
Outcome(db, ok, err, id) == [db |-> db, ok |-> ok, err |-> err, id |-> id]

AccountExists(db, id) == \E a \in db.accounts : a.id = id
CategoryRow(id, parent_id, type) == [id |-> id, parent_id |-> parent_id, type |-> type]
CategoryExists(db, id) == \E c \in db.categories : c.id = id
AccountOf(db, id) == CHOOSE a \in db.accounts : a.id = id

\* ---------------------------------------------------- Transaction Poster
Kinds == {"INCOME", "EXPENSE", "TRANSFER"}

\* A memo is the sequence of its words; NoMemo is the absent memo.
NoMemo == <<>>

TxnRow(id, input) ==
  [id |-> id, date |-> input.date, type |-> input.transaction_type,
   amount |-> input.amount, account_id |-> input.account_id,
   to_account_id |-> input.to_account_id, category_id |-> input.category_id,
   memo |-> input.memo]

JeRow(id, transaction_id, account_id, debit, credit) ==
  [id |-> id, transaction_id |-> transaction_id, account_id |-> account_id,
   debit |-> debit, credit |-> credit]

\* The journal rows of one transaction, in insertion order.
PosterEntriesBothSidesDebit(kind, transaction_id, account_id, to_account_id, amount, je0) ==
  CASE kind = "INCOME" -> <<JeRow(je0 + 1, transaction_id, account_id, amount, 0)>>
    [] kind = "EXPENSE" -> <<JeRow(je0 + 1, transaction_id, account_id, 0, amount)>>
    [] kind = "TRANSFER" ->
         <<JeRow(je0 + 1, transaction_id, account_id, amount, 0),
           JeRow(je0 + 2, transaction_id, to_account_id, amount, 0)>>
    [] OTHER -> <<>>

\* Entries that debit the account for an EXPENSE as for an INCOME.
PosterEntriesExpenseDebits(kind, transaction_id, account_id, to_account_id, amount, je0) ==
  CASE kind = "INCOME" -> <<JeRow(je0 + 1, transaction_id, account_id, amount, 0)>>
    [] kind = "EXPENSE" -> <<JeRow(je0 + 1, transaction_id, account_id, amount, 0)>>
    [] kind = "TRANSFER" ->
         <<JeRow(je0 + 1, transaction_id, account_id, 0, amount),
           JeRow(je0 + 2, transaction_id, to_account_id, amount, 0)>>
    [] OTHER -> <<>>

PosterEntries(kind, transaction_id, account_id, to_account_id, amount, je0) ==
  CASE kind = "INCOME" -> <<JeRow(je0 + 1, transaction_id, account_id, amount, 0)>>
    [] kind = "EXPENSE" -> <<JeRow(je0 + 1, transaction_id, account_id, 0, amount)>>
    [] kind = "TRANSFER" ->
         <<JeRow(je0 + 1, transaction_id, account_id, 0, amount),
           JeRow(je0 + 2, transaction_id, to_account_id, amount, 0)>>
    [] OTHER -> <<>>

JeWrites(entries) == [i \in 1..Len(entries) |-> [op |-> "ins_je", row |-> entries[i]]]

create_transaction_error_NoSelfCheck(db, input) ==
  IF input.transaction_type \notin Kinds THEN "Invalid transaction type"
  ELSE IF input.amount <= 0 THEN "Amount must be greater than zero"
  ELSE IF ~AccountExists(db, input.account_id) THEN "Account does not exist"
  ELSE IF input.transaction_type = "TRANSFER" /\ input.to_account_id = NULL
       THEN "Transfer requires to_account_id"
  ELSE IF input.transaction_type = "TRANSFER" /\ ~AccountExists(db, input.to_account_id)
       THEN "Destination account does not exist"
  ELSE IF input.category_id # NULL /\ ~CategoryExists(db, input.category_id)
       THEN "Category does not exist"
  ELSE ""

create_transaction_error(db, input) ==
  IF input.transaction_type \notin Kinds THEN "Invalid transaction type"
  ELSE IF input.amount <= 0 THEN "Amount must be greater than zero"
  ELSE IF ~AccountExists(db, input.account_id) THEN "Account does not exist"
  ELSE IF input.transaction_type = "TRANSFER" /\ input.to_account_id = NULL
       THEN "Transfer requires to_account_id"
  ELSE IF input.transaction_type = "TRANSFER" /\ input.to_account_id = input.account_id
       THEN "Cannot transfer to the same account"
  ELSE IF input.transaction_type = "TRANSFER" /\ ~AccountExists(db, input.to_account_id)
       THEN "Destination account does not exist"
  ELSE IF input.category_id # NULL /\ ~CategoryExists(db, input.category_id)
       THEN "Category does not exist"
  ELSE ""

create_transaction(db, input, fail) ==
  LET err == create_transaction_error(db, input)
      transaction_id == db.txn_seq + 1
      entries == PosterEntries(input.transaction_type, transaction_id, input.account_id,
                               input.to_account_id, input.amount, db.je_seq)
      writes == <<[op |-> "ins_txn", row |-> TxnRow(transaction_id, input)]>>
                \o JeWrites(entries)
      n == Len(writes)
  IN IF err # "" THEN Outcome(db, FALSE, err, NULL)
     ELSE IF TxFailed(fail, n)
          THEN Outcome(ApplyWrites(db, writes, TxPersisted(fail, n)), FALSE,
                       "store error", NULL)
          ELSE Outcome(ApplyWrites(db, writes, TxPersisted(fail, n)), TRUE, "",
                       transaction_id)

\* ------------------------------------------------------------- balances
EntriesOf(db, account_id) == {e \in db.journal_entries : e.account_id = account_id}

\* get_accounts_with_balance: initial_balance + SUM(debit) - SUM(credit).
current_balance(db, account) ==
  LET es == EntriesOf(db, account.id)
  IN account.initial_balance
       + (SumOver(es, [e \in es |-> e.debit]) - SumOver(es, [e \in es |-> e.credit]))

\* Journal rows joined to their transaction, kept when its date is <= as_of.
EntriesUpToBefore(db, account_id, as_of) ==
  {e \in EntriesOf(db, account_id) :
     \E t \in db.transactions : t.id = e.transaction_id /\ t.date < as_of}

EntriesUpTo(db, account_id, as_of) ==
  {e \in EntriesOf(db, account_id) :
     \E t \in db.transactions : t.id = e.transaction_id /\ t.date <= as_of}

\* The per-account balance of calc_net_worth_at (as_of = NULL: all time).
balance_as_of(db, account, as_of) ==
  LET es == IF as_of = NULL THEN EntriesOf(db, account.id)
            ELSE EntriesUpTo(db, account.id, as_of)
  IN account.initial_balance
       + (SumOver(es, [e \in es |-> e.debit]) - SumOver(es, [e \in es |-> e.credit]))

\* ------------------------------------------------- credit-card billing
SettingsExists(db, settings_id) == \E c \in db.settings : c.id = settings_id
SettingsOf(db, settings_id) == CHOOSE c \in db.settings : c.id = settings_id

InRange(date, from, to) == date >= from /\ date <= to

\* SUM(amount) of the EXPENSE rows on the account that satisfy keep.
ChargesWhere(db, account_id, keep) ==
  LET ts == {t \in db.transactions :
               t.account_id = account_id /\ t.type = "EXPENSE" /\ keep[t.date]}
  IN SumOver(ts, [t \in ts |-> t.amount])

\* SUM(amount) of the TRANSFER rows into the account that satisfy keep.
PaymentsWhere(db, account_id, keep) ==
  LET ts == {t \in db.transactions :
               t.to_account_id = account_id /\ t.type = "TRANSFER" /\ keep[t.date]}
  IN SumOver(ts, [t \in ts |-> t.amount])

TxnDates(db) == {t.date : t \in db.transactions}

calculate_balance_before_date(db, account_id, before_date) ==
  LET keep == [d \in TxnDates(db) |-> d < before_date]
  IN Max(ChargesWhere(db, account_id, keep) - PaymentsWhere(db, account_id, keep), 0)

calculate_card_balances(db, card, t) ==
  LET account == AccountOf(db, card.account_id)
      es == EntriesOf(db, card.account_id)
      journal_balance == SumOver(es, [e \in es |-> e.debit])
                           - SumOver(es, [e \in es |-> e.credit])
      total_balance == 0 - (account.initial_balance + journal_balance)
      cycle_start == compute_current_cycle_dates(t, card.statement_day)[1]
      keep == [d \in TxnDates(db) |-> d >= cycle_start]
      current_cycle_charges == ChargesWhere(db, card.account_id, keep)
      current_cycle_payments == PaymentsWhere(db, card.account_id, keep)
  IN [total_balance |-> Max(total_balance, 0),
      outstanding_balance |-> Max(current_cycle_charges - current_cycle_payments, 0),
      available_credit |-> IF card.credit_limit > 0
                           THEN Max(card.credit_limit - total_balance, 0) ELSE 0,
      current_cycle_charges |-> current_cycle_charges,
      current_cycle_payments |-> current_cycle_payments,
      \* in hundredths of a percent
      utilization_percentage |-> IF card.credit_limit > 0
                                 THEN RoundDiv(total_balance * 10000, card.credit_limit)
                                 ELSE 0]

\* Column defaults of credit_card_statements (schema).
StatementDefaults == [status |-> "CLOSED", paid_amount |-> 0, paid_date |-> NULL]

CardStatements(db, settings_id) == {s \in db.statements : s.credit_card_id = settings_id}

existing_statement_OtherCardOnly(db, settings_id, cycle_start, cycle_end) ==
  {s \in db.statements :
     /\ s.credit_card_id # settings_id
     /\ s.cycle_start_date = cycle_start /\ s.cycle_end_date = cycle_end}

\* The statement rows of this card for exactly this cycle.
existing_statement(db, settings_id, cycle_start, cycle_end) ==
  {s \in CardStatements(db, settings_id) :
     s.cycle_start_date = cycle_start /\ s.cycle_end_date = cycle_end}

generate_statement(db, settings_id, t, fail) ==
  IF ~SettingsExists(db, settings_id)
  THEN Outcome(db, FALSE, "Credit card settings not found", NULL)
  ELSE
    LET card == SettingsOf(db, settings_id)
        cycle == compute_current_cycle_dates(t, card.statement_day)
        cycle_start == cycle[1]
        cycle_end == cycle[2]
        existing == existing_statement(db, settings_id, cycle_start, cycle_end)
        keep == [d \in TxnDates(db) |-> InRange(d, cycle_start, cycle_end)]
        total_charges == ChargesWhere(db, card.account_id, keep)
        total_payments == PaymentsWhere(db, card.account_id, keep)
        mine == CardStatements(db, settings_id)
        \* ORDER BY cycle_end_date DESC LIMIT 1
        prev_statement == {s \in mine : \A o \in mine : o.cycle_end_date <= s.cycle_end_date}
        opening_balance ==
          IF prev_statement # {} THEN (CHOOSE s \in prev_statement : TRUE).closing_balance
          ELSE calculate_balance_before_date(db, card.account_id, cycle_start)
        closing_balance == opening_balance + total_charges - total_payments
        minimum_payment ==
          RoundToCents(closing_balance * card.minimum_payment_percentage, 100)
        due_date == compute_due_date(cycle_end, card.payment_due_day)
        row == [id |-> db.stmt_seq + 1, credit_card_id |-> settings_id,
                statement_date |-> cycle_end, due_date |-> due_date,
                cycle_start_date |-> cycle_start, cycle_end_date |-> cycle_end,
                opening_balance |-> opening_balance, total_charges |-> total_charges,
                total_payments |-> total_payments, closing_balance |-> closing_balance,
                minimum_payment |-> Max(minimum_payment, 0),
                status |-> StatementDefaults.status,
                paid_amount |-> StatementDefaults.paid_amount,
                paid_date |-> StatementDefaults.paid_date]
        writes == <<[op |-> "ins_stmt", row |-> row]>>
    IN IF existing # {}
       THEN Outcome(db, FALSE, "Statement already exists for this billing cycle", NULL)
       ELSE IF PoolFailed(fail, 1)
            THEN Outcome(ApplyWrites(db, writes, PoolPersisted(fail, 1)), FALSE,
                         "store error", NULL)
            ELSE Outcome(ApplyWrites(db, writes, PoolPersisted(fail, 1)), TRUE, "", row.id)

\* All orders in which ORDER BY due_date ASC may return the rows of S.
SortedByDue(S) ==
  {o \in [1..Cardinality(S) -> S] :
     /\ \A i, j \in 1..Cardinality(S) : i # j => o[i] # o[j]
     /\ \A i, j \in 1..Cardinality(S) : i < j => o[i].due_date <= o[j].due_date}

PaymentStatusExactMatch(new_paid, closing_balance) ==
  IF new_paid = closing_balance THEN "PAID" ELSE "PARTIAL"

PaymentStatus(new_paid, closing_balance) ==
  IF Abs(new_paid - closing_balance) < PaidTolerance THEN "PAID" ELSE "PARTIAL"

RECURSIVE SweepWritesNoCap(_, _, _)
SweepWritesNoCap(order, remaining_payment, paid_date) ==
  IF order = <<>> \/ remaining_payment <= 0 THEN <<>>
  ELSE
    LET stmt == Head(order)
        stmt_remaining == stmt.closing_balance - stmt.paid_amount
        new_paid == stmt.paid_amount + remaining_payment
        row == [stmt EXCEPT !.paid_amount = new_paid,
                            !.status = IF Abs(new_paid - stmt.closing_balance) < PaidTolerance
                                       THEN "PAID" ELSE "PARTIAL",
                            !.paid_date = paid_date]
    IN IF stmt_remaining <= 0 THEN SweepWritesNoCap(Tail(order), remaining_payment, paid_date)
       ELSE <<[op |-> "upd_stmt", row |-> row]>>

\* The UPDATEs of the allocation loop over the fetched rows, in order.
RECURSIVE SweepWrites(_, _, _)
SweepWrites(order, remaining_payment, paid_date) ==
  IF order = <<>> \/ remaining_payment <= 0 THEN <<>>
  ELSE
    LET stmt == Head(order)
        stmt_remaining == stmt.closing_balance - stmt.paid_amount
        apply_amount == Min(remaining_payment, stmt_remaining)
        new_paid == stmt.paid_amount + apply_amount
        row == [stmt EXCEPT !.paid_amount = new_paid,
                            !.status = PaymentStatus(new_paid, stmt.closing_balance),
                            !.paid_date = paid_date]
    IN IF stmt_remaining <= 0 THEN SweepWrites(Tail(order), remaining_payment, paid_date)
       ELSE <<[op |-> "upd_stmt", row |-> row]>>
              \o SweepWrites(Tail(order), remaining_payment - apply_amount, paid_date)

\* The rows the sweep fetches.
OpenStatements(db, settings_id) ==
  {s \in CardStatements(db, settings_id) : s.status \in {"OPEN", "CLOSED", "PARTIAL"}}

\* fail counts the store calls of the sweep: the SELECT is call 1, the k-th
\* UPDATE is call k + 1.  order is the fetched row order.
update_statement_payment_status(db, settings_id, payment_amount, paid_date, order, fail) ==
  LET writes == SweepWrites(order, payment_amount, paid_date)
      n == Len(writes)
      sweep_fail == IF fail = 0 THEN 0 ELSE fail - 1
  IN IF fail = 1 THEN Outcome(db, FALSE, "store error", NULL)
     ELSE IF PoolFailed(sweep_fail, n)
          THEN Outcome(ApplyWrites(db, writes, PoolPersisted(sweep_fail, n)), FALSE,
                       "store error", NULL)
          ELSE Outcome(ApplyWrites(db, writes, PoolPersisted(sweep_fail, n)), TRUE, "", NULL)

CardPaymentMemo(account_id) == <<"Credit card payment -", ToString(account_id)>>

SettlementInput(settings_id, payment_account_id, has_amount, amount, date) ==
  [credit_card_settings_id |-> settings_id, payment_account_id |-> payment_account_id,
   has_amount |-> has_amount, amount |-> amount, date |-> date]

\* An explicit amount is taken as given.
settle_credit_card_error_AnyAmount(db, input, t) ==
  IF ~SettingsExists(db, input.credit_card_settings_id) THEN "Credit card settings not found"
  ELSE IF ~AccountExists(db, input.payment_account_id) THEN "Payment account not found"
  ELSE IF AccountOf(db, input.payment_account_id).type # "ASSET"
       THEN "Payment must come from an ASSET account (Bank/Cash/Savings)"
  ELSE IF input.payment_account_id = SettingsOf(db, input.credit_card_settings_id).account_id
       THEN "Cannot pay credit card from itself"
  ELSE IF ~input.has_amount
          /\ calculate_card_balances(db, SettingsOf(db, input.credit_card_settings_id),
                                     t).total_balance <= 0
       THEN "No outstanding balance to pay"
  ELSE ""

settle_credit_card_error(db, input, t) ==
  IF ~SettingsExists(db, input.credit_card_settings_id) THEN "Credit card settings not found"
  ELSE IF ~AccountExists(db, input.payment_account_id) THEN "Payment account not found"
  ELSE IF AccountOf(db, input.payment_account_id).type # "ASSET"
       THEN "Payment must come from an ASSET account (Bank/Cash/Savings)"
  ELSE IF input.payment_account_id = SettingsOf(db, input.credit_card_settings_id).account_id
       THEN "Cannot pay credit card from itself"
  ELSE IF input.has_amount /\ input.amount <= 0 THEN "Payment amount must be greater than 0"
  ELSE IF ~input.has_amount
          /\ calculate_card_balances(db, SettingsOf(db, input.credit_card_settings_id),
                                     t).total_balance <= 0
       THEN "No outstanding balance to pay"
  ELSE ""

\* Store calls of settle_credit_card: 1 the transaction insert, 2 and 3 the
\* journal inserts, 4 the commit; then the sweep on the pool: 5 its SELECT,
\* 6.. its UPDATEs.
SettleTxCalls == 4

settle_credit_card(db, input, t, fail) ==
  LET err == settle_credit_card_error(db, input, t) IN
  IF err # "" THEN {Outcome(db, FALSE, err, NULL)}
  ELSE
    LET card == SettingsOf(db, input.credit_card_settings_id)
        payment_amount == IF input.has_amount THEN input.amount
                          ELSE calculate_card_balances(db, card, t).total_balance
        date == IF input.date # NULL THEN input.date ELSE t
        transaction_id == db.txn_seq + 1
        row == [id |-> transaction_id, date |-> date, type |-> "TRANSFER",
                amount |-> payment_amount, account_id |-> input.payment_account_id,
                to_account_id |-> card.account_id, category_id |-> NULL,
                memo |-> CardPaymentMemo(card.account_id)]
        writes == <<[op |-> "ins_txn", row |-> row],
                    [op |-> "ins_je",
                     row |-> JeRow(db.je_seq + 1, transaction_id, input.payment_account_id,
                                   0, payment_amount)],
                    [op |-> "ins_je",
                     row |-> JeRow(db.je_seq + 2, transaction_id, card.account_id,
                                   payment_amount, 0)]>>
        n == Len(writes)
        posted == ApplyWrites(db, writes, TxPersisted(fail, n))
    IN IF TxFailed(fail, n) THEN {Outcome(posted, FALSE, "store error", NULL)}
       ELSE { LET sweep == update_statement_payment_status(
                             posted, input.credit_card_settings_id, payment_amount, date,
                             order, IF fail > SettleTxCalls THEN fail - SettleTxCalls ELSE 0)
              IN IF sweep.ok THEN Outcome(sweep.db, TRUE, "", transaction_id)
                 ELSE Outcome(sweep.db, FALSE, sweep.err, NULL)
              : order \in SortedByDue(OpenStatements(posted, input.credit_card_settings_id)) }

\* LIKE 'Auto-settlement%'
IsAutoSettlementMemo(memo) == Len(memo) >= 1 /\ memo[1] = "Auto-settlement"

AutoSettlementCards(db) ==
  {c \in db.settings : c.auto_settlement_enabled /\ c.settlement_account_id # NULL}

\* One iteration of the loop over the cards; the possible outcomes.
auto_settle_card(db, card, t, fail) ==
  LET already_settled ==
        {x \in db.transactions :
           /\ x.type = "TRANSFER"
           /\ x.to_account_id = card.account_id
           /\ x.account_id = card.settlement_account_id
           /\ x.date = t
           /\ IsAutoSettlementMemo(x.memo)}
      candidates == {s \in CardStatements(db, card.id) : s.status \in {"OPEN", "CLOSED"}}
      \* ORDER BY due_date ASC LIMIT 1
      oldest == {s \in candidates : \A o \in candidates : s.due_date <= o.due_date}
  IN IF Day(t) # card.payment_due_day THEN {Outcome(db, TRUE, "skipped", NULL)}
     ELSE IF already_settled # {} THEN {Outcome(db, TRUE, "skipped", NULL)}
     ELSE IF oldest = {} THEN {Outcome(db, TRUE, "skipped", NULL)}
     ELSE UNION { LET remaining == s.closing_balance - s.paid_amount IN
                    IF remaining > 0
                    THEN settle_credit_card(
                           db, SettlementInput(card.id, card.settlement_account_id,
                                               TRUE, remaining, t), t, fail)
                    ELSE {Outcome(db, TRUE, "skipped", NULL)}
                  : s \in oldest }

\* The loop: cards in id order, each outcome feeding the next card; a failed
\* settlement is logged and the loop goes on.  ids collects the settled ids.
RECURSIVE auto_settle_from(_, _, _, _, _)
auto_settle_from(db, card_ids, t, fail, ids) ==
  IF card_ids = {} THEN {[db |-> db, ids |-> ids]}
  ELSE LET cid == CHOOSE c \in card_ids : \A o \in card_ids : c <= o
           live == {c \in db.settings : c.id = cid}
       IN IF live = {} THEN auto_settle_from(db, card_ids \ {cid}, t, fail, ids)
          ELSE UNION { auto_settle_from(out.db, card_ids \ {cid}, t, fail,
                                        IF out.ok /\ out.id # NULL
                                        THEN Append(ids, out.id) ELSE ids)
                       : out \in auto_settle_card(db, CHOOSE c \in live : TRUE, t, fail) }

process_auto_settlements(db, t, fail) ==
  auto_settle_from(db, {c.id : c \in AutoSettlementCards(db)}, t, fail, <<>>)

\* ---------------------------------------------------------------- inputs
Amounts == {5000, 20000}
FailPoints == 0..4

TxnInput(date, kind, amount, account_id, to_account_id, category_id, memo) ==
  [date |-> date, transaction_type |-> kind, amount |-> amount,
   account_id |-> account_id, to_account_id |-> to_account_id,
   category_id |-> category_id, memo |-> memo]

\* Requests the Poster accepts, dated d.
ValidInputs(d) ==
  { TxnInput(d, "INCOME", a, BankAccount, NULL, NULL, NoMemo) : a \in Amounts }
  \cup { TxnInput(d, "INCOME", 5000, CardAccount, NULL, NULL, NoMemo),
         TxnInput(d, "EXPENSE", 5000, BankAccount, NULL, NULL, NoMemo),
         TxnInput(d, "EXPENSE", 20000, CardAccount, NULL, NULL, NoMemo),
         TxnInput(d, "EXPENSE", 5000, BankAccount, NULL, FoodCategory, NoMemo),
         TxnInput(d, "TRANSFER", 5000, BankAccount, CardAccount, NULL, NoMemo),
         TxnInput(d, "TRANSFER", 20000, CardAccount, BankAccount, NULL, NoMemo) }

\* Requests that break one validation rule each.
InvalidInputs(d) ==
  { TxnInput(d, "REFUND", 5000, BankAccount, NULL, NULL, NoMemo),
    TxnInput(d, "INCOME", 0, BankAccount, NULL, NULL, NoMemo),
    TxnInput(d, "EXPENSE", -5000, BankAccount, NULL, NULL, NoMemo),
    TxnInput(d, "EXPENSE", 5000, GhostAccount, NULL, NULL, NoMemo),
    TxnInput(d, "TRANSFER", 5000, BankAccount, NULL, NULL, NoMemo),
    TxnInput(d, "TRANSFER", 5000, BankAccount, BankAccount, NULL, NoMemo),
    TxnInput(d, "TRANSFER", 5000, BankAccount, GhostAccount, NULL, NoMemo),
    TxnInput(d, "INCOME", 5000, BankAccount, NULL, GhostCategory, NoMemo) }

PosterInputs(d) == ValidInputs(d) \cup InvalidInputs(d)

\* ---------------------------------------------------------------- actions
CreateTransaction ==
  \E input \in PosterInputs(today), fail \in FailPoints :
    LET out == create_transaction(DB, input, fail) IN
      /\ txn_seq < MaxTxns
      /\ Commit(out.db)
      /\ last_result' = Result("create_transaction", input, out.ok, out.err, out.id)
      /\ UNCHANGED today

\* The wall clock moves on to a later day.
AdvanceDay ==
  /\ \E d \in Days : d > today /\ today' = d
  /\ last_result' = Result("clock", NoInput, TRUE, "", NULL)
  /\ UNCHANGED StoreVars

Init ==
  /\ accounts = {[id |-> BankAccount, type |-> "ASSET", initial_balance |-> 50000],
                 [id |-> CardAccount, type |-> "LIABILITY", initial_balance |-> 0]}
  /\ categories = {CategoryRow(FoodCategory, NULL, "EXPENSE")}
  /\ cat_seq = 1
  /\ budgets = {}
  /\ budget_seq = 0
  /\ transactions = {}
  /\ journal_entries = {}
  /\ txn_seq = 0
  /\ je_seq = 0
  /\ settings = {}
  /\ statements = {}
  /\ stmt_seq = 0
  /\ plans = {}
  /\ payments = {}
  /\ plan_seq = 0
  /\ pay_seq = 0
  /\ exchange_rates = {}
  /\ rate_seq = 0
  /\ snapshots = {}
  /\ snap_seq = 0
  /\ calls = NoCalls
  /\ recurring_transactions = {}
  /\ rec_seq = 0
  /\ app_settings = NoPin
  /\ now = 0
  /\ guesses = 0
  /\ today = FirstDay
  /\ last_result = Result("init", NoInput, TRUE, "", NULL)

Next == CreateTransaction \/ AdvanceDay

Spec == Init /\ [][Next]_vars

\* ------------------------------------------------ billing specification
TheCard == Ids.card_settings

\* Purchases on the card.
CardInputs(d) == { TxnInput(d, "EXPENSE", 20000, CardAccount, NULL, NULL, NoMemo) }

SettleInputs ==
  { SettlementInput(TheCard, BankAccount, FALSE, 0, NULL),
    SettlementInput(TheCard, BankAccount, TRUE, 5000, NULL),
    SettlementInput(TheCard, BankAccount, TRUE, 19995, NULL),
    SettlementInput(TheCard, BankAccount, TRUE, 30000, NULL),
    SettlementInput(TheCard, BankAccount, TRUE, 0, NULL),
    SettlementInput(TheCard, CardAccount, TRUE, 5000, NULL),
    SettlementInput(TheCard, GhostAccount, TRUE, 5000, NULL),
    SettlementInput(Ids.ghost, BankAccount, TRUE, 5000, NULL) }

\* No error; an error inside the posting unit; an error at the sweep's
\* SELECT, at its first and at its second UPDATE.
SettleFailPoints == {0, 2, 5, 6, 7}

CardCharge ==
  \E input \in CardInputs(today) :
    LET out == create_transaction(DB, input, 0) IN
      /\ txn_seq < MaxTxns
      /\ Commit(out.db)
      /\ last_result' = Result("create_transaction", input, out.ok, out.err, out.id)
      /\ UNCHANGED today

GenerateStatement ==
  \E settings_id \in {TheCard}, fail \in {0, 1} :
    LET out == generate_statement(DB, settings_id, today, fail) IN
      /\ stmt_seq < MaxStatements
      /\ Commit(out.db)
      /\ last_result' = Result("generate_statement", [settings_id |-> settings_id],
                               out.ok, out.err, out.id)
      /\ UNCHANGED today

SettleCreditCard ==
  \E input \in SettleInputs, fail \in SettleFailPoints :
    \E out \in settle_credit_card(DB, input, today, fail) :
      /\ txn_seq < MaxTxns
      /\ Commit(out.db)
      /\ last_result' = Result("settle_credit_card", input, out.ok, out.err, out.id)
      /\ UNCHANGED today

ProcessAutoSettlements ==
  \E fail \in SettleFailPoints :
    \E out \in process_auto_settlements(DB, today, fail) :
      /\ txn_seq < MaxTxns
      /\ Commit(out.db)
      /\ last_result' = Result("process_auto_settlements", NoInput, TRUE, "", Len(out.ids))
      /\ UNCHANGED today

InitBilling ==
  /\ accounts = {[id |-> BankAccount, type |-> "ASSET", initial_balance |-> 50000],
                 [id |-> CardAccount, type |-> "LIABILITY", initial_balance |-> 0]}
  /\ categories = {CategoryRow(FoodCategory, NULL, "EXPENSE")}
  /\ cat_seq = 1
  /\ budgets = {}
  /\ budget_seq = 0
  /\ transactions = {}
  /\ journal_entries = {}
  /\ txn_seq = 0
  /\ je_seq = 0
  /\ settings = {[id |-> TheCard, account_id |-> CardAccount, credit_limit |-> 100000,
                  statement_day |-> 10, payment_due_day |-> 15,
                  minimum_payment_percentage |-> DefaultMinPaymentPct,
                  auto_settlement_enabled |-> TRUE,
                  settlement_account_id |-> BankAccount]}
  /\ statements = {}
  /\ stmt_seq = 0
  /\ plans = {}
  /\ payments = {}
  /\ plan_seq = 0
  /\ pay_seq = 0
  /\ exchange_rates = {}
  /\ rate_seq = 0
  /\ snapshots = {}
  /\ snap_seq = 0
  /\ calls = NoCalls
  /\ recurring_transactions = {}
  /\ rec_seq = 0
  /\ app_settings = NoPin
  /\ now = 0
  /\ guesses = 0
  /\ today = FirstDay
  /\ last_result = Result("init", NoInput, TRUE, "", NULL)

NextBilling ==
  CardCharge \/ GenerateStatement \/ SettleCreditCard \/ ProcessAutoSettlements
    \/ AdvanceDay

SpecBilling == InitBilling /\ [][NextBilling]_vars

\* ------------------------------------------------------ installment plans
PlanDefaults == [installments_paid |-> 0, total_paid |-> 0, status |-> "ACTIVE"]

PlanExists(db, plan_id) == \E p \in db.plans : p.id = plan_id
PlanOf(db, plan_id) == CHOOSE p \in db.plans : p.id = plan_id

\* Only MONTHLY plans are modelled: start + 30 * (installment_number - 1) days.
calculate_next_due_date(start_date, installment_number) ==
  AddDays(start_date, DueFallbackDays * (installment_number - 1))

PlanInput(total_amount, num_installments, account_id, category_id, start_date) ==
  [total_amount |-> total_amount, num_installments |-> num_installments,
   account_id |-> account_id, category_id |-> category_id, start_date |-> start_date]

create_installment_plan(db, plan, fail) ==
  LET plan_id == db.plan_seq + 1
      row == [id |-> plan_id, total_amount |-> plan.total_amount,
              num_installments |-> plan.num_installments,
              amount_per_installment |->
                IF plan.num_installments > 0
                THEN RoundToCents(plan.total_amount, plan.num_installments) ELSE 0,
              account_id |-> plan.account_id, category_id |-> plan.category_id,
              start_date |-> plan.start_date,
              next_due_date |-> calculate_next_due_date(plan.start_date, 1),
              installments_paid |-> PlanDefaults.installments_paid,
              total_paid |-> PlanDefaults.total_paid,
              status |-> PlanDefaults.status]
      writes == <<[op |-> "ins_plan", row |-> row]>>
  IN IF plan.total_amount <= 0
       THEN Outcome(db, FALSE, "Total amount must be greater than 0", NULL)
     ELSE IF plan.num_installments <= 0
       THEN Outcome(db, FALSE, "Number of installments must be greater than 0", NULL)
     ELSE IF ~AccountExists(db, plan.account_id)
       THEN Outcome(db, FALSE, "Account not found", NULL)
     ELSE IF ~CategoryExists(db, plan.category_id)
       THEN Outcome(db, FALSE, "Category not found", NULL)
     ELSE IF PoolFailed(fail, 1) THEN Outcome(db, FALSE, "store error", NULL)
     ELSE Outcome(ApplyWrites(db, writes, 1), TRUE, "", plan_id)

InstallmentMemo(next_installment_number, num_installments) ==
  <<"Plan", "- Installment", ToString(next_installment_number),
    ToString(num_installments)>>

\* The four writes and the closing read all run on the pool, one by one.
InstallmentPoolCalls == 5

process_installment_payment(db, plan_id, t, fail) ==
  IF ~PlanExists(db, plan_id)
    THEN Outcome(db, FALSE, "Installment plan not found", NULL)
  ELSE
  LET plan == PlanOf(db, plan_id)
      next_installment_number == plan.installments_paid + 1
      payment_amount == IF next_installment_number = plan.num_installments
                        THEN plan.total_amount - plan.total_paid
                        ELSE plan.amount_per_installment
      transaction_id == db.txn_seq + 1
      payment_id == db.pay_seq + 1
      txn == [id |-> transaction_id, date |-> t, type |-> "EXPENSE",
              amount |-> payment_amount, account_id |-> plan.account_id,
              to_account_id |-> NULL, category_id |-> plan.category_id,
              memo |-> InstallmentMemo(next_installment_number, plan.num_installments)]
      entry == JeRow(db.je_seq + 1, transaction_id, plan.account_id, 0, payment_amount)
      payment == [id |-> payment_id, installment_plan_id |-> plan_id,
                  transaction_id |-> transaction_id,
                  installment_number |-> next_installment_number,
                  amount |-> payment_amount, due_date |-> plan.next_due_date,
                  paid_date |-> t]
      installments_paid == plan.installments_paid + 1
      updated == [plan EXCEPT
                    !.installments_paid = installments_paid,
                    !.total_paid = plan.total_paid + payment_amount,
                    !.status = IF installments_paid >= plan.num_installments
                               THEN "COMPLETED" ELSE "ACTIVE",
                    !.next_due_date =
                      IF installments_paid < plan.num_installments
                      THEN calculate_next_due_date(plan.start_date, installments_paid + 1)
                      ELSE plan.next_due_date]
      writes == <<[op |-> "ins_txn", row |-> txn], [op |-> "ins_je", row |-> entry],
                  [op |-> "ins_pay", row |-> payment], [op |-> "upd_plan", row |-> updated]>>
      after == ApplyWrites(db, writes, PoolPersisted(fail, InstallmentPoolCalls))
  IN IF plan.status = "COMPLETED"
       THEN Outcome(db, FALSE, "Installment plan is already completed", NULL)
     ELSE IF plan.status = "CANCELLED"
       THEN Outcome(db, FALSE, "Installment plan is cancelled", NULL)
     ELSE IF plan.installments_paid >= plan.num_installments
       THEN Outcome(db, FALSE, "All installments have been paid", NULL)
     ELSE IF PoolFailed(fail, InstallmentPoolCalls)
       THEN Outcome(after, FALSE, "store error", NULL)
     ELSE Outcome(after, TRUE, "", payment_id)

\* ------------------------------------------------------------------ restore
\* A backup: the exported accounts, categories and budgets with their old
\* ids, and the exported transactions that refer to them.
Backup(account_rows, category_rows, transaction_rows, budget_rows) ==
  [accounts |-> account_rows, categories |-> category_rows,
   transactions |-> transaction_rows, budgets |-> budget_rows]

\* old id -> new id, new ids being the insertion positions.
IdMap(old_ids) == [old \in {old_ids[i] : i \in 1..Len(old_ids)} |->
                     CHOOSE i \in 1..Len(old_ids) : old_ids[i] = old]

Mapped(map, id) == IF id \in DOMAIN map THEN map[id] ELSE id

ClearedTables(db) ==
  [db EXCEPT !.journal_entries = {}, !.payments = {}, !.statements = {},
             !.settings = {}, !.plans = {}, !.transactions = {},
             !.categories = {}, !.accounts = {},
             !.exchange_rates = {}, !.budgets = {},
             !.txn_seq = 0, !.je_seq = 0, !.stmt_seq = 0, !.plan_seq = 0,
             !.pay_seq = 0, !.rate_seq = 0, !.cat_seq = 0, !.budget_seq = 0]

MapWith(map, old, new) ==
  [x \in DOMAIN map \cup {old} |-> IF x = old THEN new ELSE map[x]]

\* One pass over the exported categories: the rows without a parent when
\* children = FALSE, the rows with one when children = TRUE.  A parent id
\* that is not in the map yet is kept as it is.
RECURSIVE RestoreCategoryPass(_, _, _)
RestoreCategoryPass(rows, children, st) ==
  IF rows = <<>> THEN st
  ELSE LET category == Head(rows)
           new_id == st.seq + 1
           row == CategoryRow(new_id,
                              IF children THEN Mapped(st.map, category.parent_id) ELSE NULL,
                              category.type)
       IN IF (category.parent_id # NULL) # children
          THEN RestoreCategoryPass(Tail(rows), children, st)
          ELSE RestoreCategoryPass(Tail(rows), children,
                                   [rows |-> st.rows \cup {row},
                                    map |-> MapWith(st.map, category.id, new_id),
                                    seq |-> new_id])

RestoreCategories(rows) ==
  RestoreCategoryPass(rows, TRUE,
    RestoreCategoryPass(rows, FALSE, [rows |-> {}, map |-> <<>>, seq |-> 0]))

RestoreBudgets(rows, category_id_map) ==
  {[rows[i] EXCEPT !.id = i, !.category_id = Mapped(category_id_map, @)] : i \in 1..Len(rows)}

RECURSIVE RestoreTransactionWrites(_, _, _, _, _)
RestoreTransactionWrites(rows, account_id_map, category_id_map, txn0, je0) ==
  IF rows = <<>> THEN <<>>
  ELSE
    LET txn == Head(rows)
        new_txn_id == txn0 + 1
        new_account_id == account_id_map[txn.account_id]
        new_to_account_id == IF txn.to_account_id = NULL THEN NULL
                             ELSE Mapped(account_id_map, txn.to_account_id)
        new_category_id == IF txn.category_id = NULL THEN NULL
                           ELSE Mapped(category_id_map, txn.category_id)
        row == [id |-> new_txn_id, date |-> txn.date, type |-> txn.transaction_type,
                amount |-> txn.amount, account_id |-> new_account_id,
                to_account_id |-> new_to_account_id, category_id |-> new_category_id,
                memo |-> txn.memo]
        entries ==
          CASE txn.transaction_type = "INCOME" ->
                 <<JeRow(je0 + 1, new_txn_id, new_account_id, txn.amount, 0)>>
            [] txn.transaction_type = "EXPENSE" ->
                 <<JeRow(je0 + 1, new_txn_id, new_account_id, 0, txn.amount)>>
            [] txn.transaction_type = "TRANSFER" /\ new_to_account_id # NULL ->
                 <<JeRow(je0 + 1, new_txn_id, new_account_id, 0, txn.amount),
                   JeRow(je0 + 2, new_txn_id, new_to_account_id, txn.amount, 0)>>
            [] OTHER -> <<>>
    IN <<[op |-> "ins_txn", row |-> row]>> \o JeWrites(entries)
         \o RestoreTransactionWrites(Tail(rows), account_id_map, category_id_map,
                                     new_txn_id, je0 + Len(entries))

restore_from_backup(db, backup, fail) ==
  LET account_id_map == IdMap([i \in 1..Len(backup.accounts) |-> backup.accounts[i].id])
      restored_categories == RestoreCategories(backup.categories)
      category_id_map == restored_categories.map
      cleared == ClearedTables(db)
      seeded == [cleared EXCEPT
                   !.accounts = {[backup.accounts[i] EXCEPT !.id = i] :
                                   i \in 1..Len(backup.accounts)},
                   !.categories = restored_categories.rows,
                   !.cat_seq = restored_categories.seq,
                   !.budgets = RestoreBudgets(backup.budgets, category_id_map),
                   !.budget_seq = Len(backup.budgets)]
      unmapped == \E i \in 1..Len(backup.transactions) :
                    backup.transactions[i].account_id \notin DOMAIN account_id_map
      writes == RestoreTransactionWrites(backup.transactions, account_id_map,
                                         category_id_map, 0, 0)
      n == Len(writes)
  IN IF unmapped THEN Outcome(db, FALSE, "Account ID not found in backup", NULL)
     ELSE IF TxFailed(fail, n) THEN Outcome(db, FALSE, "store error", NULL)
     ELSE Outcome(ApplyWrites(seeded, writes, n), TRUE, "", Len(backup.transactions))

\* ------------------------------------------------ writers specification
PlanInputs(d) ==
  { PlanInput(30000, 2, BankAccount, FoodCategory, d),
    PlanInput(Cent, 3, BankAccount, FoodCategory, d),
    PlanInput(0, 2, BankAccount, FoodCategory, d),
    PlanInput(30000, 2, GhostAccount, FoodCategory, d) }

BackupAccounts ==
  <<[id |-> Ids.old_bank, type |-> "ASSET", initial_balance |-> 50000],
    [id |-> Ids.old_card, type |-> "LIABILITY", initial_balance |-> 0]>>

BackupTransactions ==
  { TxnInput(FirstDay, "TRANSFER", 5000, Ids.old_bank, Ids.old_card, Ids.old_food, NoMemo),
    TxnInput(FirstDay, "TRANSFER", 5000, Ids.old_bank, Ids.old_bank, NULL, NoMemo),
    TxnInput(FirstDay, "TRANSFER", 5000, Ids.old_bank, NULL, NULL, NoMemo),
    TxnInput(FirstDay, "EXPENSE", 5000, Ids.ghost, NULL, NULL, NoMemo) }

Backups ==
  { Backup(BackupAccounts, <<CategoryRow(Ids.old_food, NULL, "EXPENSE")>>, rows, <<>>) :
      rows \in {<<>>} \cup {<<r>> : r \in BackupTransactions} }

WriterInputs(d) ==
  { TxnInput(d, "TRANSFER", 5000, BankAccount, CardAccount, NULL, NoMemo),
    TxnInput(d, "TRANSFER", 5000, BankAccount, BankAccount, NULL, NoMemo) }

WriterSettleInputs ==
  { SettlementInput(TheCard, BankAccount, TRUE, 5000, NULL),
    SettlementInput(TheCard, CardAccount, TRUE, 5000, NULL) }

PostTransaction ==
  \E input \in WriterInputs(today) :
    LET out == create_transaction(DB, input, 0) IN
      /\ txn_seq < MaxTxns
      /\ Commit(out.db)
      /\ last_result' = Result("create_transaction", input, out.ok, out.err, out.id)
      /\ UNCHANGED today

PayCard ==
  \E input \in WriterSettleInputs :
    \E out \in settle_credit_card(DB, input, today, 0) :
      /\ txn_seq < MaxTxns
      /\ Commit(out.db)
      /\ last_result' = Result("settle_credit_card", input, out.ok, out.err, out.id)
      /\ UNCHANGED today

\* No error; the journal insert fails; the closing read fails.
InstallmentFailPoints == {0, 2, InstallmentPoolCalls}

CreateInstallmentPlan ==
  \E plan \in PlanInputs(today) :
    LET out == create_installment_plan(DB, plan, 0) IN
      /\ plan_seq < MaxPlans
      /\ Commit(out.db)
      /\ last_result' = Result("create_installment_plan", plan, out.ok, out.err, out.id)
      /\ UNCHANGED today

ProcessInstallmentPayment ==
  \E plan_id \in 1..MaxPlans, fail \in InstallmentFailPoints :
    LET out == process_installment_payment(DB, plan_id, today, fail) IN
      /\ txn_seq < MaxTxns
      /\ Commit(out.db)
      /\ last_result' = Result("process_installment_payment", [plan_id |-> plan_id],
                               out.ok, out.err, out.id)
      /\ UNCHANGED today

RestoreFromBackup ==
  \E backup \in Backups, fail \in {0, 1} :
    LET out == restore_from_backup(DB, backup, fail) IN
      /\ Commit(out.db)
      /\ last_result' = Result("restore_from_backup", backup, out.ok, out.err, out.id)
      /\ UNCHANGED today

NextWriters ==
  PostTransaction \/ PayCard \/ CreateInstallmentPlan \/ ProcessInstallmentPayment
    \/ RestoreFromBackup \/ AdvanceDay

SpecWriters == InitBilling /\ [][NextWriters]_vars

\* ------------------------------------------------- billing cycle dates
\* A store without any row.
NoStore ==
  /\ accounts = {}
  /\ categories = {}
  /\ cat_seq = 0
  /\ budgets = {}
  /\ budget_seq = 0
  /\ transactions = {}
  /\ journal_entries = {}
  /\ txn_seq = 0
  /\ je_seq = 0
  /\ settings = {}
  /\ statements = {}
  /\ stmt_seq = 0
  /\ plans = {}
  /\ payments = {}
  /\ plan_seq = 0
  /\ pay_seq = 0
  /\ exchange_rates = {}
  /\ rate_seq = 0
  /\ snapshots = {}
  /\ snap_seq = 0
  /\ calls = NoCalls
  /\ recurring_transactions = {}
  /\ rec_seq = 0
  /\ app_settings = NoPin
  /\ now = 0
  /\ guesses = 0

\* The statement days create_credit_card_settings accepts.
StatementDays == 1..28

CycleDays ==
  {FromYmdOpt(y, m, d) : y \in {2024, 2025}, m \in {1, 2, 3, 12},
                         d \in {1, 10, 25, 26, 28, 29, 31}} \ {NULL}

ComputeCycle ==
  \E statement_day \in StatementDays :
    /\ last_result' = Result("compute_current_cycle_dates",
                             [today |-> today, statement_day |-> statement_day],
                             TRUE, "", compute_current_cycle_dates(today, statement_day))
    /\ UNCHANGED <<StoreVars, today>>

InitCycle ==
  /\ NoStore
  /\ today \in CycleDays
  /\ last_result = Result("init", NoInput, TRUE, "", NULL)

NextCycle == ComputeCycle

SpecCycle == InitCycle /\ [][NextCycle]_vars

\* ------------------------------------------------ card details specification
get_credit_card_details(db, settings_id, t) ==
  IF ~SettingsExists(db, settings_id) THEN Outcome(db, FALSE, "Credit card not found", NULL)
  ELSE Outcome(db, TRUE, "", calculate_card_balances(db, SettingsOf(db, settings_id), t))

GetCreditCardDetails ==
  \E settings_id \in {TheCard, Ids.ghost} :
    LET out == get_credit_card_details(DB, settings_id, today) IN
      /\ last_result' = Result("get_credit_card_details", [settings_id |-> settings_id],
                               out.ok, out.err, out.id)
      /\ UNCHANGED <<StoreVars, today>>

NextCardDetails == CardCharge \/ PayCard \/ GetCreditCardDetails \/ AdvanceDay

SpecCardDetails == InitBilling /\ [][NextCardDetails]_vars

\* ---------------------------------------------------------- exchange rates
\* A rate is the quotient num / den of two integers, den > 0.
Rate(num, den) == [num |-> num, den |-> den]
RateOne == Rate(1, 1)
RateInverse(r) == Rate(r.den, r.num)
RatePositive(r) == r.num > 0
RateEq(a, b) == a.num * b.den = b.num * a.den

\* str::to_uppercase on the currency codes in use.
to_uppercase(code) ==
  CASE code = "usd" -> "USD" [] code = "lkr" -> "LKR" [] OTHER -> code

RateInput(from_currency, to_currency, rate, effective_date) ==
  [from_currency |-> from_currency, to_currency |-> to_currency, rate |-> rate,
   effective_date |-> effective_date]

\* INSERT .. ON CONFLICT(from_currency, to_currency, effective_date) DO UPDATE.
\* After an update last_insert_rowid() is the rowid of some earlier insert
\* on the connection used, or 0.
set_exchange_rate(db, input, fail) ==
  LET from == to_uppercase(input.from_currency)
      to == to_uppercase(input.to_currency)
      same == {r \in db.exchange_rates :
                 /\ r.from_currency = from /\ r.to_currency = to
                 /\ r.effective_date = input.effective_date}
      row == [id |-> db.rate_seq + 1, from_currency |-> from, to_currency |-> to,
              rate |-> input.rate, effective_date |-> input.effective_date]
  IN IF from = to
       THEN {Outcome(db, FALSE, "'from_currency' and 'to_currency' must be different", NULL)}
     ELSE IF ~RatePositive(input.rate)
       THEN {Outcome(db, FALSE, "Exchange rate must be greater than 0", NULL)}
     ELSE IF input.effective_date = NULL
       THEN {Outcome(db, FALSE, "Effective date is required", NULL)}
     ELSE IF PoolFailed(fail, 1) THEN {Outcome(db, FALSE, "store error", NULL)}
     ELSE IF same = {}
       THEN {Outcome([db EXCEPT !.exchange_rates = @ \cup {row}, !.rate_seq = row.id],
                     TRUE, "", row.id)}
     ELSE {Outcome([db EXCEPT !.exchange_rates =
                      {IF r \in same THEN [r EXCEPT !.rate = input.rate] ELSE r : r \in @}],
                   TRUE, "", id) : id \in 0..db.rate_seq}

delete_exchange_rate(db, rate_id) ==
  IF ~\E r \in db.exchange_rates : r.id = rate_id
  THEN Outcome(db, FALSE, "Exchange rate not found", NULL)
  ELSE Outcome([db EXCEPT !.exchange_rates = {r \in @ : r.id # rate_id}], TRUE, "", NULL)

\* WHERE from_currency = ? AND to_currency = ? AND effective_date <= ?
RatesOnOrBefore(db, from, to, date) ==
  {r \in db.exchange_rates :
     r.from_currency = from /\ r.to_currency = to /\ r.effective_date <= date}

EarliestRate(rows) == CHOOSE r \in rows : \A o \in rows : r.effective_date <= o.effective_date

\* ORDER BY effective_date DESC LIMIT 1
LatestRate(rows) == CHOOSE r \in rows : \A o \in rows : o.effective_date <= r.effective_date

Quote(rate, effective_date) == [rate |-> rate, effective_date |-> effective_date]

get_exchange_rate_internal(db, from, to, date) ==
  LET direct == RatesOnOrBefore(db, from, to, date)
      inverse == RatesOnOrBefore(db, to, from, date)
  IN IF from = to THEN Outcome(db, TRUE, "", Quote(RateOne, date))
     ELSE IF direct # {}
       THEN Outcome(db, TRUE, "", Quote(LatestRate(direct).rate,
                                        LatestRate(direct).effective_date))
     ELSE IF inverse # {}
       THEN IF ~RatePositive(LatestRate(inverse).rate)
            THEN Outcome(db, FALSE, "Stored rate is invalid (zero or negative)", NULL)
            ELSE Outcome(db, TRUE, "", Quote(RateInverse(LatestRate(inverse).rate),
                                             LatestRate(inverse).effective_date))
     ELSE Outcome(db, FALSE, "No exchange rate found", NULL)

get_exchange_rate(db, from_currency, to_currency, date) ==
  get_exchange_rate_internal(db, to_uppercase(from_currency), to_uppercase(to_currency),
                             date)

\* ------------------------------------------------- rates specification
QueryDays == {20241201, 20250101, 20250102, 20250105}

RateInputs ==
  { RateInput("USD", "LKR", Rate(300, 1), 20250101),
    RateInput("usd", "LKR", Rate(310, 1), 20250103),
    RateInput("USD", "LKR", Rate(305, 1), 20250103),
    RateInput("LKR", "USD", Rate(1, 250), 20250101),
    RateInput("LKR", "USD", Rate(1, 260), 20250101),
    RateInput("USD", "USD", Rate(1, 1), 20250101),
    RateInput("USD", "LKR", Rate(0, 1), 20250101),
    RateInput("USD", "LKR", Rate(300, 1), NULL) }

MaxRates == 3

SetExchangeRate ==
  \E input \in RateInputs, fail \in {0, 1} :
    \E out \in set_exchange_rate(DB, input, fail) :
      /\ rate_seq < MaxRates
      /\ Commit(out.db)
      /\ last_result' = Result("set_exchange_rate", input, out.ok, out.err, out.id)
      /\ UNCHANGED today

DeleteExchangeRate ==
  \E rate_id \in 1..MaxRates :
    LET out == delete_exchange_rate(DB, rate_id) IN
      /\ Commit(out.db)
      /\ last_result' = Result("delete_exchange_rate", [rate_id |-> rate_id],
                               out.ok, out.err, out.id)
      /\ UNCHANGED today

GetExchangeRate ==
  \E from \in {"USD", "LKR", "lkr"}, to \in {"USD", "LKR"}, date \in QueryDays :
    LET out == get_exchange_rate(DB, from, to, date) IN
      /\ last_result' = Result("get_exchange_rate",
                               [from_currency |-> from, to_currency |-> to, date |-> date],
                               out.ok, out.err, out.id)
      /\ UNCHANGED <<StoreVars, today>>

InitRates ==
  /\ NoStore
  /\ today = FirstDay
  /\ last_result = Result("init", NoInput, TRUE, "", NULL)

NextRates == SetExchangeRate \/ DeleteExchangeRate \/ GetExchangeRate

SpecRates == InitRates /\ [][NextRates]_vars

\* ---------------------------------------------------------------- net worth
\* Integer division and remainder that truncate toward zero (Rust / and %).
TruncDiv(a, b) == IF a >= 0 THEN a \div b ELSE 0 - ((0 - a) \div b)
TruncRem(a, b) == a - b * TruncDiv(a, b)

last_day_of_month(year, month) ==
  PredDay(IF month = 12 THEN (year + 1) * 10000 + 101 ELSE year * 10000 + (month + 1) * 100 + 1)

AccountsOfType(db, type) == {a \in db.accounts : a.type = type}

\* Sums before rounding: assets, and liabilities as the owed part of each
\* LIABILITY balance.
NetWorthSums(db, as_of) ==
  LET assets == AccountsOfType(db, "ASSET")
      liabilities == AccountsOfType(db, "LIABILITY")
  IN [assets |-> SumOver(assets, [a \in assets |-> balance_as_of(db, a, as_of)]),
      liabilities |-> SumOver(liabilities,
                              [a \in liabilities |-> Max(0 - balance_as_of(db, a, as_of), 0)])]

\* (assets, liabilities), each rounded to the cent; as_of = NULL is all time.
calc_net_worth_at(db, as_of) ==
  [assets |-> RoundToCents(NetWorthSums(db, as_of).assets, 1),
   liabilities |-> RoundToCents(NetWorthSums(db, as_of).liabilities, 1)]

SnapshotRow(id, snapshot_date, figures) ==
  [id |-> id, snapshot_date |-> snapshot_date, total_assets |-> figures.assets,
   total_liabilities |-> figures.liabilities,
   net_worth |-> figures.assets - figures.liabilities]

\* A snapshot writer that inserts without looking for the month's row.
generate_net_worth_snapshot_InsertOnly(db, t, fail) ==
  LET snapshot_date == last_day_of_month(Year(t), Month(t))
      figures == calc_net_worth_at(db, NULL)
      inserted == db.snapshots \cup {SnapshotRow(db.snap_seq + 1, snapshot_date, figures)}
  IN IF PoolFailed(fail, 1) THEN Outcome(db, FALSE, "store error", NULL)
     ELSE Outcome([db EXCEPT !.snapshots = inserted, !.snap_seq = @ + 1], TRUE, "", NULL)

generate_net_worth_snapshot(db, t, fail) ==
  LET snapshot_date == last_day_of_month(Year(t), Month(t))
      exists == \E r \in db.snapshots : r.snapshot_date = snapshot_date
      figures == calc_net_worth_at(db, NULL)
      updated == {IF r.snapshot_date = snapshot_date
                  THEN SnapshotRow(r.id, snapshot_date, figures) ELSE r : r \in db.snapshots}
      inserted == db.snapshots \cup {SnapshotRow(db.snap_seq + 1, snapshot_date, figures)}
  IN IF PoolFailed(fail, 1) THEN Outcome(db, FALSE, "store error", NULL)
     ELSE IF exists THEN Outcome([db EXCEPT !.snapshots = updated], TRUE, "", NULL)
     ELSE Outcome([db EXCEPT !.snapshots = inserted, !.snap_seq = @ + 1], TRUE, "", NULL)

\* The month ends from (year, month) on that are not after t, oldest first.
RECURSIVE BackfillMonthEnds(_, _, _)
BackfillMonthEnds(year, month, t) ==
  LET end_of_month == last_day_of_month(year, month)
  IN IF end_of_month > t THEN <<>>
     ELSE <<end_of_month>>
            \o (IF month = 12 THEN BackfillMonthEnds(year + 1, 1, t)
                ELSE BackfillMonthEnds(year, month + 1, t))

\* INSERT OR IGNORE, one month end after the other, directly on the pool.
RECURSIVE BackfillInserts(_, _, _)
BackfillInserts(db, month_ends, k) ==
  IF k = 0 \/ month_ends = <<>> THEN db
  ELSE LET date == Head(month_ends)
           row == SnapshotRow(db.snap_seq + 1, date, calc_net_worth_at(db, date))
           next == IF \E r \in db.snapshots : r.snapshot_date = date THEN db
                   ELSE [db EXCEPT !.snapshots = @ \cup {row}, !.snap_seq = row.id]
       IN BackfillInserts(next, Tail(month_ends), k - 1)

\* Backfill that does not look at the number of stored snapshots.
backfill_net_worth_snapshots_NoCountCheck(db, t, fail) ==
  IF db.transactions = {} THEN Outcome(db, TRUE, "", NULL)
  ELSE
    LET start == CHOOSE d \in TxnDates(db) : \A o \in TxnDates(db) : d <= o
        month_ends == BackfillMonthEnds(Year(start), Month(start), t)
        n == Len(month_ends)
    IN Outcome(BackfillInserts(db, month_ends, PoolPersisted(fail, n)),
               ~PoolFailed(fail, n), IF PoolFailed(fail, n) THEN "store error" ELSE "", NULL)

backfill_net_worth_snapshots(db, t, fail) ==
  IF db.snapshots # {} THEN Outcome(db, TRUE, "", NULL)
  ELSE IF db.transactions = {} THEN Outcome(db, TRUE, "", NULL)
  ELSE
    LET start == CHOOSE d \in TxnDates(db) : \A o \in TxnDates(db) : d <= o
        month_ends == BackfillMonthEnds(Year(start), Month(start), t)
        n == Len(month_ends)
    IN Outcome(BackfillInserts(db, month_ends, PoolPersisted(fail, n)),
               ~PoolFailed(fail, n), IF PoolFailed(fail, n) THEN "store error" ELSE "", NULL)

\* The date the i-th month back is valued at: today for i = 0, else the last
\* day of that month.
HistoryTargetDate(t, i) ==
  IF i = 0 THEN t
  ELSE LET month == Month(t) - i
           adj_year == IF month <= 0 THEN Year(t) - 1 + TruncDiv(month - 1, 12) ELSE Year(t)
           adj_month == IF month <= 0 THEN TruncRem(TruncRem(month - 1, 12) + 12, 12) + 1
                        ELSE month
       IN last_day_of_month(adj_year, adj_month)

\* One month of get_net_worth_history (its growth fields are left out).
HistoryFigure(db, target_date) ==
  LET sums == NetWorthSums(db, target_date)
  IN [date |-> target_date \div 100,
      total_assets |-> RoundToCents(sums.assets, 1),
      total_liabilities |-> RoundToCents(sums.liabilities, 1),
      net_worth |-> RoundToCents(sums.assets - sums.liabilities, 1)]

get_net_worth_history(db, t, num_months) ==
  [k \in 1..num_months |-> HistoryFigure(db, HistoryTargetDate(t, num_months - k))]

\* ---------------------------------------------- net worth specification
NetWorthDays == {20250131, 20250215, 20250331}

DatedInputs(d) ==
  { TxnInput(20241220, "INCOME", 10004, BankAccount, NULL, NULL, NoMemo),
    TxnInput(20250110, "EXPENSE", 6, CardAccount, NULL, NULL, NoMemo),
    TxnInput(d, "TRANSFER", 30000, BankAccount, CardAccount, NULL, NoMemo),
    TxnInput(20250310, "EXPENSE", 20000, CardAccount, NULL, NULL, NoMemo) }

PostDated ==
  \E input \in DatedInputs(today) :
    LET out == create_transaction(DB, input, 0) IN
      /\ txn_seq < MaxTxns
      /\ Commit(out.db)
      /\ last_result' = Result("create_transaction", input, out.ok, out.err, out.id)
      /\ UNCHANGED today

GenerateNetWorthSnapshot ==
  \E fail \in {0, 1} :
    LET out == generate_net_worth_snapshot(DB, today, fail) IN
      /\ Commit(out.db)
      /\ last_result' = Result("generate_net_worth_snapshot", NoInput, out.ok, out.err, out.id)
      /\ UNCHANGED today

BackfillNetWorthSnapshots ==
  \E fail \in {0, 2} :
    LET out == backfill_net_worth_snapshots(DB, today, fail) IN
      /\ Commit(out.db)
      /\ last_result' = Result("backfill_net_worth_snapshots", NoInput, out.ok, out.err, out.id)
      /\ UNCHANGED today

HistoryMonths == 2

GetNetWorthHistory ==
  /\ last_result' = Result("get_net_worth_history", [months |-> HistoryMonths], TRUE, "",
                           get_net_worth_history(DB, today, HistoryMonths))
  /\ UNCHANGED <<StoreVars, today>>

AdvanceNetWorthDay ==
  /\ \E d \in NetWorthDays : d > today /\ today' = d
  /\ last_result' = Result("clock", NoInput, TRUE, "", NULL)
  /\ UNCHANGED StoreVars

InitNetWorth ==
  /\ accounts = {[id |-> BankAccount, type |-> "ASSET", initial_balance |-> 50000],
                 [id |-> CardAccount, type |-> "LIABILITY", initial_balance |-> 0]}
  /\ categories = {CategoryRow(FoodCategory, NULL, "EXPENSE")}
  /\ cat_seq = 1
  /\ budgets = {}
  /\ budget_seq = 0
  /\ transactions = {}
  /\ journal_entries = {}
  /\ txn_seq = 0
  /\ je_seq = 0
  /\ settings = {}
  /\ statements = {}
  /\ stmt_seq = 0
  /\ plans = {}
  /\ payments = {}
  /\ plan_seq = 0
  /\ pay_seq = 0
  /\ exchange_rates = {}
  /\ rate_seq = 0
  /\ snapshots = {}
  /\ snap_seq = 0
  /\ calls = NoCalls
  /\ recurring_transactions = {}
  /\ rec_seq = 0
  /\ app_settings = NoPin
  /\ now = 0
  /\ guesses = 0
  /\ today \in NetWorthDays
  /\ last_result = Result("init", NoInput, TRUE, "", NULL)

NextNetWorth ==
  PostDated \/ GenerateNetWorthSnapshot \/ BackfillNetWorthSnapshots
    \/ GetNetWorthHistory \/ AdvanceNetWorthDay

SpecNetWorth == InitNetWorth /\ [][NextNetWorth]_vars

\* ------------------------------------------------ budget window specification
\* The end of the budget window that get_budget_status computes from the stored
\* period and start_date.
budget_end_date(period, start_date) ==
  IF period = "MONTHLY"
  THEN LET next_month == IF Month(start_date) = 12
                         THEN FromYmdOpt(Year(start_date) + 1, 1, Day(start_date))
                         ELSE FromYmdOpt(Year(start_date), Month(start_date) + 1, Day(start_date))
       IN Outcome(DB, TRUE, "", IF next_month = NULL THEN start_date ELSE next_month)
  ELSE IF period = "YEARLY"
  THEN LET next_year == FromYmdOpt(Year(start_date) + 1, Month(start_date), Day(start_date))
       IN Outcome(DB, TRUE, "", IF next_year = NULL THEN start_date ELSE next_year)
  ELSE Outcome(DB, FALSE, "Invalid budget period", NULL)

\* The periods create_budget accepts.
BudgetPeriods == {"MONTHLY", "YEARLY"}

BudgetStartDates ==
  {FromYmdOpt(y, m, d) : y \in {2023, 2024}, m \in 1..12, d \in {1, 15, 28, 29, 30, 31}} \ {NULL}

BudgetWindow ==
  \E period \in BudgetPeriods, start_date \in BudgetStartDates :
    LET out == budget_end_date(period, start_date) IN
      /\ last_result' = Result("get_budget_status", [period |-> period, start_date |-> start_date],
                               out.ok, out.err, out.id)
      /\ UNCHANGED <<StoreVars, today>>

InitBudget ==
  /\ NoStore
  /\ today = FirstDay
  /\ last_result = Result("init", NoInput, TRUE, "", NULL)

NextBudget == BudgetWindow

SpecBudget == InitBudget /\ [][NextBudget]_vars

\* ------------------------------------------------------------- budgets
\* NaiveDate::parse_from_str(s, "%Y-%m-%d") succeeds on s.
IsCalendarDate(d) == d # NULL /\ FromYmdOpt(Year(d), Month(d), Day(d)) = d

BudgetRow(id, category_id, amount, period, start_date) ==
  [id |-> id, category_id |-> category_id, amount |-> amount, period |-> period,
   start_date |-> start_date]

BudgetInput(category_id, amount, period, start_date) ==
  [category_id |-> category_id, amount |-> amount, period |-> period,
   start_date |-> start_date]

create_budget(db, input, fail) ==
  IF input.period \notin BudgetPeriods
    THEN Outcome(db, FALSE, "Period must be MONTHLY or YEARLY", NULL)
  ELSE IF input.amount <= 0
    THEN Outcome(db, FALSE, "Budget amount must be greater than zero", NULL)
  ELSE IF ~CategoryExists(db, input.category_id)
    THEN Outcome(db, FALSE, "Category does not exist", NULL)
  ELSE IF ~IsCalendarDate(input.start_date)
    THEN Outcome(db, FALSE, "Invalid date format. Use YYYY-MM-DD", NULL)
  ELSE IF \E b \in db.budgets : /\ b.category_id = input.category_id
                                /\ b.period = input.period
                                /\ b.start_date = input.start_date
    THEN Outcome(db, FALSE, "Budget already exists for this category and period", NULL)
  ELSE IF PoolFailed(fail, 1) THEN Outcome(db, FALSE, "store error", NULL)
  ELSE Outcome([db EXCEPT !.budgets = @ \cup {BudgetRow(db.budget_seq + 1, input.category_id,
                                                          input.amount, input.period,
                                                          input.start_date)},
                          !.budget_seq = @ + 1],
               TRUE, "", db.budget_seq + 1)

CategoryOf(db, id) == CHOOSE c \in db.categories : c.id = id

\* The transactions the spending query of a budget selects, with and without
\* the date range.
BudgetSpendRowsAnyDate(db, budget, end_date) ==
  {t \in db.transactions :
     /\ t.type = "EXPENSE"
     /\ t.category_id # NULL /\ CategoryExists(db, t.category_id)
     /\ \/ t.category_id = budget.category_id
        \/ CategoryOf(db, t.category_id).parent_id = budget.category_id}

BudgetSpendRows(db, budget, end_date) ==
  {t \in db.transactions :
     /\ t.type = "EXPENSE"
     /\ t.date >= budget.start_date /\ t.date < end_date
     /\ t.category_id # NULL /\ CategoryExists(db, t.category_id)
     /\ \/ t.category_id = budget.category_id
        \/ CategoryOf(db, t.category_id).parent_id = budget.category_id}

\* get_budget_status: the window end, the spending and what is left (the
\* percentage and the per-day averages of the answer are left out).
get_budget_status(db, budget_id) ==
  IF ~\E b \in db.budgets : b.id = budget_id /\ CategoryExists(db, b.category_id)
    THEN Outcome(db, FALSE, "Budget not found", NULL)
  ELSE
    LET budget == CHOOSE b \in db.budgets : b.id = budget_id
        window == budget_end_date(budget.period, budget.start_date)
        rows == BudgetSpendRows(db, budget, window.id)
        spent_amount == SumOver(rows, [t \in rows |-> t.amount])
    IN IF ~IsCalendarDate(budget.start_date)
         THEN Outcome(db, FALSE, "Invalid start date in database", NULL)
       ELSE IF ~window.ok THEN Outcome(db, FALSE, window.err, NULL)
       ELSE Outcome(db, TRUE, "",
                    [budget |-> budget, end_date |-> window.id,
                     spent_amount |-> spent_amount,
                     remaining_amount |-> budget.amount - spent_amount,
                     is_over_budget |-> spent_amount > budget.amount])

\* ------------------------------------------- budget status specification
MaxBudgets == 2

\* A month's window: 2025-01-05 up to 2025-02-05.
FoodBudgetStart == FirstDay
FoodBudgetEnd == AddDays(FoodBudgetStart, 31)

\* Food > Groceries > Organic, and Salary beside them.
Groceries == Ids.groceries
Organic == Ids.organic
Salary == Ids.salary

BudgetCategories ==
  { CategoryRow(FoodCategory, NULL, "EXPENSE"), CategoryRow(Groceries, FoodCategory, "EXPENSE"),
    CategoryRow(Organic, Groceries, "EXPENSE"), CategoryRow(Salary, NULL, "INCOME") }

BudgetedInputs ==
  { TxnInput(d, "EXPENSE", 5000, BankAccount, NULL, c, NoMemo) :
      d \in {FoodBudgetStart}, c \in {FoodCategory, Groceries, Organic, Salary, NULL} }
  \cup
  { TxnInput(FoodBudgetEnd, "EXPENSE", 5000, BankAccount, NULL, FoodCategory, NoMemo),
    TxnInput(FoodBudgetEnd, "EXPENSE", 5000, BankAccount, NULL, Groceries, NoMemo),
    TxnInput(20250104, "EXPENSE", 3000, BankAccount, NULL, FoodCategory, NoMemo),
    TxnInput(20250120, "EXPENSE", 3000, CardAccount, NULL, Groceries, NoMemo),
    TxnInput(20250120, "INCOME", 3000, BankAccount, NULL, FoodCategory, NoMemo),
    TxnInput(20250120, "TRANSFER", 3000, BankAccount, CardAccount, Groceries, NoMemo) }

BudgetInputs ==
  { BudgetInput(Groceries, 4000, "MONTHLY", FoodBudgetStart),
    BudgetInput(FoodCategory, 10000, "MONTHLY", FoodBudgetStart),
    BudgetInput(FoodCategory, 10000, "WEEKLY", FoodBudgetStart),
    BudgetInput(FoodCategory, 0, "MONTHLY", FoodBudgetStart),
    BudgetInput(GhostCategory, 10000, "MONTHLY", FoodBudgetStart),
    BudgetInput(FoodCategory, 10000, "MONTHLY", 20250230) }

PostBudgeted ==
  \E input \in BudgetedInputs :
    LET out == create_transaction(DB, input, 0) IN
      /\ txn_seq < MaxTxns
      /\ Commit(out.db)
      /\ last_result' = Result("create_transaction", input, out.ok, out.err, out.id)
      /\ UNCHANGED today

CreateBudget ==
  \E input \in BudgetInputs, fail \in {0, 1} :
    LET out == create_budget(DB, input, fail) IN
      /\ budget_seq < MaxBudgets
      /\ Commit(out.db)
      /\ last_result' = Result("create_budget", input, out.ok, out.err, out.id)
      /\ UNCHANGED today

GetBudgetStatus ==
  \E budget_id \in {1, 2, Ids.ghost} :
    LET out == get_budget_status(DB, budget_id) IN
      /\ last_result' = Result("get_budget_status", [budget_id |-> budget_id],
                               out.ok, out.err, out.id)
      /\ UNCHANGED <<StoreVars, today>>

InitBudgetStatus ==
  /\ accounts = {[id |-> BankAccount, type |-> "ASSET", initial_balance |-> 50000],
                 [id |-> CardAccount, type |-> "LIABILITY", initial_balance |-> 0]}
  /\ categories = BudgetCategories
  /\ cat_seq = 4
  /\ budgets = {BudgetRow(1, FoodCategory, 10000, "MONTHLY", FoodBudgetStart)}
  /\ budget_seq = 1
  /\ transactions = {}
  /\ journal_entries = {}
  /\ txn_seq = 0
  /\ je_seq = 0
  /\ settings = {}
  /\ statements = {}
  /\ stmt_seq = 0
  /\ plans = {}
  /\ payments = {}
  /\ plan_seq = 0
  /\ pay_seq = 0
  /\ exchange_rates = {}
  /\ rate_seq = 0
  /\ snapshots = {}
  /\ snap_seq = 0
  /\ calls = NoCalls
  /\ recurring_transactions = {}
  /\ rec_seq = 0
  /\ app_settings = NoPin
  /\ now = 0
  /\ guesses = 0
  /\ today = 20250120
  /\ last_result = Result("init", NoInput, TRUE, "", NULL)

NextBudgetStatus == PostBudgeted \/ CreateBudget \/ GetBudgetStatus

SpecBudgetStatus == InitBudgetStatus /\ [][NextBudgetStatus]_vars

\* ----------------------------------------------------------- categories
CategoryKinds == {"INCOME", "EXPENSE"}

CategoryInput(parent_id, type) == [parent_id |-> parent_id, category_type |-> type]

create_category(db, input, fail) ==
  IF input.category_type \notin CategoryKinds
    THEN Outcome(db, FALSE, "Category type must be INCOME or EXPENSE", NULL)
  ELSE IF input.parent_id # NULL /\ ~CategoryExists(db, input.parent_id)
    THEN Outcome(db, FALSE, "Parent category does not exist", NULL)
  ELSE IF PoolFailed(fail, 1) THEN Outcome(db, FALSE, "store error", NULL)
  ELSE Outcome([db EXCEPT !.categories = @ \cup {CategoryRow(db.cat_seq + 1, input.parent_id,
                                                              input.category_type)},
                          !.cat_seq = @ + 1],
               TRUE, "", db.cat_seq + 1)

\* has_name: the request carries a new name (names are not part of the rows).
CategoryUpdate(id, has_name, parent_id) ==
  [id |-> id, has_name |-> has_name, parent_id |-> parent_id]

update_category(db, input, fail) ==
  IF ~CategoryExists(db, input.id) THEN Outcome(db, FALSE, "Category not found", NULL)
  ELSE IF input.parent_id # NULL /\ input.parent_id = input.id
    THEN Outcome(db, FALSE, "Category cannot be its own parent", NULL)
  ELSE IF input.parent_id # NULL /\ ~CategoryExists(db, input.parent_id)
    THEN Outcome(db, FALSE, "Parent category does not exist", NULL)
  ELSE IF ~input.has_name /\ input.parent_id = NULL
    THEN Outcome(db, FALSE, "No fields to update", NULL)
  ELSE IF PoolFailed(fail, 1) THEN Outcome(db, FALSE, "store error", NULL)
  ELSE Outcome([db EXCEPT !.categories =
                  {IF c.id = input.id /\ input.parent_id # NULL
                   THEN [c EXCEPT !.parent_id = input.parent_id] ELSE c : c \in @}],
               TRUE, "", NULL)

\* A delete that does not look for subcategories.
delete_category_NoChildCheck(db, category_id, fail) ==
  IF \E t \in db.transactions : t.category_id = category_id
    THEN Outcome(db, FALSE, "Cannot delete category with existing transactions", NULL)
  ELSE IF PoolFailed(fail, 1) THEN Outcome(db, FALSE, "store error", NULL)
  ELSE Outcome([db EXCEPT !.categories = {c \in @ : c.id # category_id}], TRUE, "", NULL)

delete_category(db, category_id, fail) ==
  IF \E t \in db.transactions : t.category_id = category_id
    THEN Outcome(db, FALSE, "Cannot delete category with existing transactions", NULL)
  ELSE IF \E c \in db.categories : c.parent_id = category_id
    THEN Outcome(db, FALSE, "Cannot delete category with subcategories", NULL)
  ELSE IF PoolFailed(fail, 1) THEN Outcome(db, FALSE, "store error", NULL)
  ELSE Outcome([db EXCEPT !.categories = {c \in @ : c.id # category_id}], TRUE, "", NULL)

delete_account(db, account_id, fail) ==
  IF \E t \in db.transactions : t.account_id = account_id \/ t.to_account_id = account_id
    THEN Outcome(db, FALSE, "Cannot delete account with existing transactions", NULL)
  ELSE IF PoolFailed(fail, 1) THEN Outcome(db, FALSE, "store error", NULL)
  ELSE Outcome([db EXCEPT !.accounts = {a \in @ : a.id # account_id}], TRUE, "", NULL)

\* ------------------------------------------------ categories specification
MaxCategories == 3

CategoryIds == 1..MaxCategories \cup {GhostCategory}

CategorisedInputs(d) ==
  { TxnInput(d, "EXPENSE", 5000, BankAccount, NULL, FoodCategory, NoMemo),
    TxnInput(d, "TRANSFER", 5000, BankAccount, CardAccount, NULL, NoMemo) }

PostCategorised ==
  \E input \in CategorisedInputs(today) :
    LET out == create_transaction(DB, input, 0) IN
      /\ txn_seq < MaxTxns - 1
      /\ Commit(out.db)
      /\ last_result' = Result("create_transaction", input, out.ok, out.err, out.id)
      /\ UNCHANGED today

CreateCategory ==
  \E parent_id \in CategoryIds \cup {NULL}, type \in {"EXPENSE", "OTHER"} :
    LET input == CategoryInput(parent_id, type)
        out == create_category(DB, input, 0) IN
      /\ cat_seq < MaxCategories
      /\ Commit(out.db)
      /\ last_result' = Result("create_category", input, out.ok, out.err, out.id)
      /\ UNCHANGED today

UpdateCategory ==
  \E id \in CategoryIds, parent_id \in CategoryIds \cup {NULL} :
    \E has_name \in IF parent_id = NULL THEN BOOLEAN ELSE {FALSE} :
    LET input == CategoryUpdate(id, has_name, parent_id)
        out == update_category(DB, input, 0) IN
      /\ Commit(out.db)
      /\ last_result' = Result("update_category", input, out.ok, out.err, out.id)
      /\ UNCHANGED today

DeleteCategory ==
  \E category_id \in CategoryIds :
    LET out == delete_category(DB, category_id, 0) IN
      /\ Commit(out.db)
      /\ last_result' = Result("delete_category", [category_id |-> category_id],
                               out.ok, out.err, out.id)
      /\ UNCHANGED today

DeleteAccount ==
  \E account_id \in {BankAccount, CardAccount, GhostAccount} :
    LET out == delete_account(DB, account_id, 0) IN
      /\ Commit(out.db)
      /\ last_result' = Result("delete_account", [account_id |-> account_id],
                               out.ok, out.err, out.id)
      /\ UNCHANGED today

NextCategories ==
  PostCategorised \/ CreateCategory \/ UpdateCategory \/ DeleteCategory \/ DeleteAccount

SpecCategories == Init /\ [][NextCategories]_vars

\* ------------------------------------------------- editing transactions
\* The date of an update request is a text that the handler pastes between
\* quotes into its UPDATE statement.  <<>> is no date, <<d>> the text of the
\* day d, and <<d, x>> the text  d', amount = 'x  whose quote ends the literal,
\* so that the statement reads  SET date = 'd', amount = 'x' WHERE id = ..
NoDateText == <<>>
DateText(d) == <<d>>
DateTextWithAmount(d, x) == <<d, x>>

UpdateTransactionInput(id, date, amount, category_id, memo) ==
  [id |-> id, date |-> date, amount |-> amount, category_id |-> category_id, memo |-> memo]

TransactionExists(db, id) == \E t \in db.transactions : t.id = id

\* The SET clause applied to one row.
UpdatedTransaction(t, input) ==
  [t EXCEPT !.date = IF input.date # NoDateText THEN input.date[1] ELSE @,
            !.amount = IF Len(input.date) = 2 THEN input.date[2] ELSE @,
            !.category_id = IF input.category_id # NULL THEN input.category_id ELSE @,
            !.memo = IF input.memo # NoMemo THEN input.memo ELSE @]

update_transaction(db, input, fail) ==
  IF ~TransactionExists(db, input.id) THEN Outcome(db, FALSE, "Transaction not found", NULL)
  ELSE IF input.date = NoDateText /\ input.category_id = NULL /\ input.memo = NoMemo
    THEN Outcome(db, FALSE, "No fields to update", NULL)
  ELSE IF PoolFailed(fail, 1) THEN Outcome(db, FALSE, "store error", NULL)
  ELSE Outcome([db EXCEPT !.transactions =
                  {IF t.id = input.id THEN UpdatedTransaction(t, input) ELSE t : t \in @}],
               TRUE, "", NULL)

\* journal_entries.transaction_id ... ON DELETE CASCADE
CascadeJournalEntries(entries, transaction_id) ==
  {e \in entries : e.transaction_id # transaction_id}

\* A delete whose journal entries stay behind.
delete_transaction_NoCascade(db, transaction_id, fail) ==
  IF PoolFailed(fail, 1) THEN Outcome(db, FALSE, "store error", NULL)
  ELSE Outcome([db EXCEPT !.transactions = {t \in @ : t.id # transaction_id}], TRUE, "", NULL)

delete_transaction(db, transaction_id, fail) ==
  IF PoolFailed(fail, 1) THEN Outcome(db, FALSE, "store error", NULL)
  ELSE Outcome([db EXCEPT !.transactions = {t \in @ : t.id # transaction_id},
                          !.journal_entries = CascadeJournalEntries(@, transaction_id)],
               TRUE, "", NULL)

\* ----------------------------------------------------- edit specification
\* 2025-02-30: a text of the right shape that is no calendar date.
NoSuchDay == 20250230

EditableInputs(d) ==
  { TxnInput(d, "INCOME", 5000, BankAccount, NULL, NULL, NoMemo),
    TxnInput(d, "TRANSFER", 5000, BankAccount, CardAccount, NULL, NoMemo),
    TxnInput(NoSuchDay, "EXPENSE", 5000, CardAccount, NULL, FoodCategory, NoMemo) }

UpdateInputs ==
  { UpdateTransactionInput(1, DateText(NoSuchDay), NULL, NULL, NoMemo),
    UpdateTransactionInput(1, DateTextWithAmount(20250115, 99900), NULL, NULL, NoMemo),
    UpdateTransactionInput(1, DateText(20250115), NULL, FoodCategory, <<"lunch">>),
    UpdateTransactionInput(1, NoDateText, NULL, FoodCategory, NoMemo),
    UpdateTransactionInput(1, NoDateText, NULL, NULL, <<"lunch">>),
    UpdateTransactionInput(1, NoDateText, 7000, NULL, NoMemo),
    UpdateTransactionInput(1, NoDateText, 7000, NULL, <<"lunch">>),
    UpdateTransactionInput(Ids.ghost, DateText(20250115), NULL, NULL, NoMemo) }

PostEditable ==
  \E input \in EditableInputs(today) :
    LET out == create_transaction(DB, input, 0) IN
      /\ txn_seq < MaxTxns
      /\ Commit(out.db)
      /\ last_result' = Result("create_transaction", input, out.ok, out.err, out.id)
      /\ UNCHANGED today

UpdateTransaction ==
  \E input \in UpdateInputs, fail \in {0, 1} :
    LET out == update_transaction(DB, input, fail) IN
      /\ Commit(out.db)
      /\ last_result' = Result("update_transaction", input, out.ok, out.err, out.id)
      /\ UNCHANGED today

DeleteTransaction ==
  \E transaction_id \in 1..MaxTxns \cup {Ids.ghost}, fail \in {0, 1} :
    LET out == delete_transaction(DB, transaction_id, fail) IN
      /\ Commit(out.db)
      /\ last_result' = Result("delete_transaction", [transaction_id |-> transaction_id],
                               out.ok, out.err, out.id)
      /\ UNCHANGED today

NextEdit == PostEditable \/ UpdateTransaction \/ DeleteTransaction

SpecEdit == Init /\ [][NextEdit]_vars

\* ------------------------------------------------ round trip specification
RoundTripAmounts == {5000, 7000}

RoundTripInputs(d) ==
  { TxnInput(d, kind, x, account_id, NULL, NULL, NoMemo) :
      kind \in {"INCOME", "EXPENSE"}, x \in RoundTripAmounts,
      account_id \in {BankAccount, CardAccount} }
  \cup { TxnInput(d, "TRANSFER", 5000, BankAccount, CardAccount, NULL, NoMemo) }

PostRoundTrip ==
  \E input \in RoundTripInputs(today) :
    LET out == create_transaction(DB, input, 0) IN
      /\ txn_seq < MaxTxns
      /\ Commit(out.db)
      /\ last_result' = Result("create_transaction", input, out.ok, out.err, out.id)
      /\ UNCHANGED today

NextRoundTrip == PostRoundTrip

SpecRoundTrip == Init /\ [][NextRoundTrip]_vars

\* ------------------------------------------------ account balance history
\* Journal rows of the account joined to a transaction dated in [from, to].
EntriesBetween(db, account_id, from, to) ==
  {e \in EntriesOf(db, account_id) :
     \E t \in db.transactions : t.id = e.transaction_id /\ t.date >= from /\ t.date <= to}

NetOf(es) == SumOver(es, [e \in es |-> e.debit]) - SumOver(es, [e \in es |-> e.credit])

\* change_map.get(date): the day's SUM(debit) - SUM(credit), nothing for a day
\* without rows.
day_change(db, account_id, d) == NetOf(EntriesBetween(db, account_id, d, d))

BalancePoint(date, balance) == [date |-> date, balance |-> RoundToCents(balance, 1)]

\* while current_date <= end: one step per calendar day.
RECURSIVE WalkDays(_, _, _, _, _, _)
WalkDays(db, account_id, start, end, current_date, w) ==
  IF current_date > end THEN w
  ELSE LET running == w.running_balance + day_change(db, account_id, current_date)
           last == current_date = end
       IN WalkDays(db, account_id, start, end, SuccDay(current_date),
            [running_balance |-> running,
             highest |-> IF running > w.highest THEN running ELSE w.highest,
             lowest |-> IF running < w.lowest THEN running ELSE w.lowest,
             balance_sum |-> w.balance_sum + running,
             day_count |-> w.day_count + 1,
             balance_history |->
               IF w.day_count % 7 = 0 \/ last
               THEN Append(w.balance_history, BalancePoint(current_date, running))
               ELSE w.balance_history])

get_account_balance_history(db, account_id, start_date, end_date) ==
  IF ~AccountExists(db, account_id) THEN Outcome(db, FALSE, "Account not found", NULL)
  ELSE
    LET account == CHOOSE a \in db.accounts : a.id = account_id
        opening_balance ==
          account.initial_balance + NetOf(EntriesUpToBefore(db, account_id, start_date))
        closing_balance ==
          account.initial_balance + NetOf(EntriesUpTo(db, account_id, end_date))
        in_period == EntriesBetween(db, account_id, start_date, end_date)
        total_inflow == SumOver(in_period, [e \in in_period |-> e.debit])
        total_outflow == SumOver(in_period, [e \in in_period |-> e.credit])
        w == WalkDays(db, account_id, start_date, end_date, start_date,
                      [running_balance |-> opening_balance, highest |-> opening_balance,
                       lowest |-> opening_balance, balance_sum |-> 0, day_count |-> 0,
                       balance_history |-> <<BalancePoint(start_date, opening_balance)>>])
    IN IF ~IsCalendarDate(start_date) THEN Outcome(db, FALSE, "Invalid start date", NULL)
       ELSE IF ~IsCalendarDate(end_date) THEN Outcome(db, FALSE, "Invalid end date", NULL)
       ELSE Outcome(db, TRUE, "",
              [account_id |-> account_id,
               account_type |-> account.type,
               current_balance |-> RoundToCents(current_balance(db, account), 1),
               opening_balance |-> RoundToCents(opening_balance, 1),
               closing_balance |-> RoundToCents(closing_balance, 1),
               highest_balance |-> RoundToCents(w.highest, 1),
               lowest_balance |-> RoundToCents(w.lowest, 1),
               average_daily_balance |->
                 IF w.day_count > 0 THEN RoundToCents(w.balance_sum, w.day_count)
                 ELSE RoundToCents(opening_balance, 1),
               total_inflow |-> RoundToCents(total_inflow, 1),
               total_outflow |-> RoundToCents(total_outflow, 1),
               net_change |-> RoundToCents(total_inflow - total_outflow, 1),
               transaction_count |-> Cardinality({e.transaction_id : e \in in_period}),
               balance_history |-> w.balance_history])

\* ---------------------------------- account balance history specification
PerformanceInputs ==
  { TxnInput(20250130, "INCOME", 3000, BankAccount, NULL, NULL, NoMemo),
    TxnInput(20250201, "INCOME", 3000, BankAccount, NULL, NULL, NoMemo),
    TxnInput(20250130, "EXPENSE", 1000, BankAccount, NULL, NULL, NoMemo),
    TxnInput(20250201, "EXPENSE", 1000, BankAccount, NULL, NULL, NoMemo),
    TxnInput(20250201, "TRANSFER", 2000, BankAccount, CardAccount, NULL, NoMemo) }

PostPerformance ==
  \E input \in PerformanceInputs :
    LET out == create_transaction(DB, input, 0) IN
      /\ txn_seq < MaxTxns
      /\ Commit(out.db)
      /\ last_result' = Result("create_transaction", input, out.ok, out.err, out.id)
      /\ UNCHANGED today

GetAccountBalanceHistory ==
  \E account_id \in {BankAccount, CardAccount, Ids.ghost},
     start_date \in {20250130, 20250131, 20250230},
     end_date \in {20250130, 20250202} :
    LET out == get_account_balance_history(DB, account_id, start_date, end_date) IN
      /\ last_result' = Result("get_account_balance_history",
                               [account_id |-> account_id, start_date |-> start_date,
                                end_date |-> end_date],
                               out.ok, out.err, out.id)
      /\ UNCHANGED <<StoreVars, today>>

NextPerformance == PostPerformance \/ GetAccountBalanceHistory

SpecPerformance == Init /\ [][NextPerformance]_vars

\* ------------------------------------------------------------ full backup
\* The rows of S as a sequence, smallest key first; a key is a pair compared
\* on its first part, then on its second.
KeyLeq(a, b) == a[1] < b[1] \/ (a[1] = b[1] /\ a[2] <= b[2])

RECURSIVE OrderedBy(_, _)
OrderedBy(S, key) ==
  IF S = {} THEN <<>>
  ELSE LET first == CHOOSE x \in S : \A y \in S : KeyLeq(key[x], key[y])
       IN <<first>> \o OrderedBy(S \ {first}, key)

\* All orders of the rows of S.
Orders(S) ==
  {o \in [1..Cardinality(S) -> S] : \A i, j \in 1..Cardinality(S) : i # j => o[i] # o[j]}

\* get_export_transactions(None): every transaction whose account exists,
\* ORDER BY date DESC, created_at DESC, serialised with the Transaction field
\* names (the id is exported and not read back).
ExportedTransactions(db) ==
  LET rows == {t \in db.transactions : AccountExists(db, t.account_id)}
      sorted == OrderedBy(rows, [t \in rows |-> <<0 - t.date, 0 - t.id>>])
  IN [i \in 1..Len(sorted) |->
        TxnInput(sorted[i].date, sorted[i].type, sorted[i].amount, sorted[i].account_id,
                 sorted[i].to_account_id, sorted[i].category_id, sorted[i].memo)]

\* Accounts and categories are exported ORDER BY name; names are free text the
\* model does not hold, so the accounts are taken in id order (their order has
\* no effect on the restore) and category_order is the order the names give.
export_full_backup(db, category_order) ==
  Backup(OrderedBy(db.accounts, [a \in db.accounts |-> <<a.id, 0>>]),
         category_order,
         ExportedTransactions(db),
         OrderedBy(db.budgets, [b \in db.budgets |-> <<b.id, 0>>]))

\* ------------------------------------------------- restore specification
RestorableInputs(d) ==
  { TxnInput(d, "EXPENSE", 5000, BankAccount, NULL, FoodCategory, NoMemo),
    TxnInput(d, "EXPENSE", 7000, CardAccount, NULL, 2, NoMemo),
    TxnInput(d, "TRANSFER", 5000, BankAccount, CardAccount, NULL, NoMemo) }

PostRestorable ==
  \E input \in RestorableInputs(today) :
    LET out == create_transaction(DB, input, 0) IN
      /\ txn_seq < MaxTxns - 1
      /\ Commit(out.db)
      /\ last_result' = Result("create_transaction", input, out.ok, out.err, out.id)
      /\ UNCHANGED today

CreateRestorableCategory ==
  \E parent_id \in {NULL, 1, 2} :
    LET input == CategoryInput(parent_id, "EXPENSE")
        out == create_category(DB, input, 0) IN
      /\ cat_seq < MaxCategories
      /\ Commit(out.db)
      /\ last_result' = Result("create_category", input, out.ok, out.err, out.id)
      /\ UNCHANGED today

CreateRestorableBudget ==
  \E category_id \in {FoodCategory, 3} :
    LET input == BudgetInput(category_id, 10000, "MONTHLY", FoodBudgetStart)
        out == create_budget(DB, input, 0) IN
      /\ budget_seq < MaxBudgets - 1
      /\ Commit(out.db)
      /\ last_result' = Result("create_budget", input, out.ok, out.err, out.id)
      /\ UNCHANGED today

\* export_full_backup, and its output handed to restore_from_backup.
RestoreExported ==
  \E category_order \in Orders(categories) :
    LET backup == export_full_backup(DB, category_order)
        out == restore_from_backup(DB, backup, 0) IN
      /\ Commit(out.db)
      /\ last_result' = Result("restore_from_backup", backup, out.ok, out.err, out.id)
      /\ UNCHANGED today

NextRestore ==
  PostRestorable \/ CreateRestorableCategory \/ CreateRestorableBudget \/ RestoreExported

SpecRestore == Init /\ [][NextRestore]_vars

\* ------------------------------------------- settlement ledger specification
NextSettlements ==
  CardCharge \/ GenerateStatement \/ PayCard \/ DeleteTransaction \/ AdvanceDay

SpecSettlements == InitBilling /\ [][NextSettlements]_vars

\* ------------------------------------------ auto-settlement liveness specification
LastDay == CHOOSE d \in Days : \A e \in Days : e <= d

IsPaymentDueDay(d) == \E card \in AutoSettlementCards(DB) : Day(d) = card.payment_due_day

\* process_auto_settlements in which every store access succeeds.
AutoSettle ==
  \E out \in process_auto_settlements(DB, today, 0) :
    /\ Commit(out.db)
    /\ last_result' = Result("process_auto_settlements", NoInput, TRUE, "", Len(out.ids))
    /\ UNCHANGED today

\* The day ends and the next day of use begins; a payment due day ends with a
\* run of process_auto_settlements.
EndOfDay ==
  /\ IsPaymentDueDay(today) => last_result.op = "process_auto_settlements"
  /\ AdvanceDay
  /\ \A d \in Days : d > today => today' <= d

NextAutoSettle == CardCharge \/ GenerateStatement \/ PayCard \/ AutoSettle \/ EndOfDay

SpecAutoSettle ==
  InitBilling /\ [][NextAutoSettle]_vars /\ WF_vars(AutoSettle) /\ SF_vars(EndOfDay)

\* ------------------------------------------- interleaved settlements
\* settle_credit_card up to its tx.commit(): the checks and the posting of the
\* TRANSFER with its two journal entries, as one unit.
SettlementPosting(db, input, t) ==
  LET card == SettingsOf(db, input.credit_card_settings_id)
      payment_amount == IF input.has_amount THEN input.amount
                        ELSE calculate_card_balances(db, card, t).total_balance
      date == IF input.date # NULL THEN input.date ELSE t
      transaction_id == db.txn_seq + 1
      row == [id |-> transaction_id, date |-> date, type |-> "TRANSFER",
              amount |-> payment_amount, account_id |-> input.payment_account_id,
              to_account_id |-> card.account_id, category_id |-> NULL,
              memo |-> CardPaymentMemo(card.account_id)]
      writes == <<[op |-> "ins_txn", row |-> row],
                  [op |-> "ins_je",
                   row |-> JeRow(db.je_seq + 1, transaction_id, input.payment_account_id,
                                 0, payment_amount)],
                  [op |-> "ins_je",
                   row |-> JeRow(db.je_seq + 2, transaction_id, card.account_id,
                                 payment_amount, 0)]>>
  IN [db |-> ApplyWrites(db, writes, Len(writes)), transaction_id |-> transaction_id,
      payment_amount |-> payment_amount, paid_date |-> date]

ConcurrentAmounts == {5000, 20000}

AllIdle == \A c \in SettleCalls : calls[c].pc = "idle"

\* The ledger is prepared while no settlement is in flight.
PrepareLedger == AllIdle /\ (CardCharge \/ GenerateStatement \/ AdvanceDay)

\* A call is received: validation and the posting transaction.
BeginSettle(c) ==
  \E amount \in ConcurrentAmounts :
    LET input == SettlementInput(TheCard, BankAccount, TRUE, amount, NULL)
        err == settle_credit_card_error(DB, input, today)
        posting == SettlementPosting(DB, input, today) IN
      /\ calls[c].pc = "idle"
      /\ statements # {}
      /\ IF err # ""
         THEN /\ last_result' = Result("settle_credit_card", input, FALSE, err, NULL)
              /\ UNCHANGED <<StoreVars, today>>
         ELSE /\ CommitStore(posting.db)
              /\ calls' = [calls EXCEPT ![c] =
                             [pc |-> "posted", input |-> input,
                              payment_amount |-> posting.payment_amount,
                              paid_date |-> posting.paid_date,
                              transaction_id |-> posting.transaction_id,
                              rows |-> <<>>, remaining_payment |-> 0]]
              /\ UNCHANGED <<today, last_result>>
      /\ UNCHANGED <<Schedules, Security>>

\* update_statement_payment_status: the SELECT of the unpaid statements.
FetchStatements(c) ==
  /\ calls[c].pc = "posted"
  /\ \E order \in SortedByDue(OpenStatements(DB, calls[c].input.credit_card_settings_id)) :
       calls' = [calls EXCEPT ![c].pc = "sweeping", ![c].rows = order,
                              ![c].remaining_payment = calls[c].payment_amount]
  /\ CommitStore(DB)
  /\ UNCHANGED <<today, last_result, Schedules, Security>>

\* One turn of the allocation loop on the fetched rows: a row with nothing
\* left is passed over, any other row gets its UPDATE.
ApplyNext(c) ==
  /\ calls[c].pc = "sweeping"
  /\ calls[c].rows # <<>>
  /\ calls[c].remaining_payment > 0
  /\ LET stmt == Head(calls[c].rows)
         stmt_remaining == stmt.closing_balance - stmt.paid_amount
         apply_amount == Min(calls[c].remaining_payment, stmt_remaining)
         new_paid == stmt.paid_amount + apply_amount
     IN IF stmt_remaining <= 0
        THEN /\ calls' = [calls EXCEPT ![c].rows = Tail(@)]
             /\ CommitStore(DB)
        ELSE /\ calls' = [calls EXCEPT ![c].rows = Tail(@),
                                       ![c].remaining_payment = @ - apply_amount]
             /\ CommitStore([DB EXCEPT !.statements =
                  {IF s.id = stmt.id
                   THEN [s EXCEPT !.paid_amount = new_paid,
                                  !.status = PaymentStatus(new_paid, stmt.closing_balance),
                                  !.paid_date = calls[c].paid_date]
                   ELSE s : s \in @}])
  /\ UNCHANGED <<today, last_result, Schedules, Security>>

\* The loop is over; the command answers with the id of its transaction.
ReturnSettle(c) ==
  /\ calls[c].pc = "sweeping"
  /\ calls[c].rows = <<>> \/ calls[c].remaining_payment <= 0
  /\ calls' = [calls EXCEPT ![c].pc = "done"]
  /\ last_result' = Result("settle_credit_card", calls[c].input, TRUE, "",
                           calls[c].transaction_id)
  /\ UNCHANGED <<today, Schedules, Security>>
  /\ CommitStore(DB)

NextConcurrent ==
  \/ PrepareLedger
  \/ \E c \in SettleCalls : BeginSettle(c)
  \/ \E c \in SettleCalls : FetchStatements(c)
  \/ \E c \in SettleCalls : ApplyNext(c)
  \/ \E c \in SettleCalls : ReturnSettle(c)

SpecConcurrent == InitBilling /\ [][NextConcurrent]_vars

\* ------------------------------------------------ recurring transactions
MaxRecurring == 2
MaxRecurringTxns == MaxRecurring + 1
Frequencies == {"DAILY", "WEEKLY", "MONTHLY", "YEARLY", "CUSTOM"}
RecurringDefaults == [last_executed_date |-> NULL, execution_count |-> 0, is_active |-> 1]
RecurringMemo == <<"Auto-generated from recurring transaction">>

ParsesAsDate(d) == FromYmdOpt(Year(d), Month(d), Day(d)) # NULL

RecurringInput(kind, amount, account_id, to_account_id, frequency, interval_days,
               start_date, end_date) ==
  [transaction_type |-> kind, amount |-> amount, account_id |-> account_id,
   to_account_id |-> to_account_id, category_id |-> NULL, frequency |-> frequency,
   interval_days |-> interval_days, start_date |-> start_date, end_date |-> end_date]

create_recurring_transaction_error(db, input) ==
  IF input.transaction_type \notin Kinds THEN "Invalid transaction type"
  ELSE IF input.frequency \notin Frequencies THEN "Invalid frequency"
  ELSE IF input.amount <= 0 THEN "Amount must be greater than zero"
  ELSE IF ~AccountExists(db, input.account_id) THEN "Account does not exist"
  ELSE IF input.transaction_type = "TRANSFER" /\ input.to_account_id = NULL
       THEN "Transfer requires to_account_id"
  ELSE IF input.transaction_type = "TRANSFER" /\ input.to_account_id = input.account_id
       THEN "Cannot transfer to the same account"
  ELSE IF input.transaction_type = "TRANSFER" /\ ~AccountExists(db, input.to_account_id)
       THEN "Destination account does not exist"
  ELSE IF input.category_id # NULL /\ ~CategoryExists(db, input.category_id)
       THEN "Category does not exist"
  ELSE IF ~ParsesAsDate(input.start_date) THEN "Invalid start date format. Use YYYY-MM-DD"
  ELSE IF input.end_date # NULL /\ ~ParsesAsDate(input.end_date)
       THEN "Invalid end date format. Use YYYY-MM-DD"
  ELSE IF input.end_date # NULL /\ input.end_date <= input.start_date
       THEN "End date must be after start date"
  ELSE ""

\* The row create_recurring_transaction inserts: the first execution is due
\* on the start date.
RecurringRow(id, input) ==
  [id |-> id, transaction_type |-> input.transaction_type, amount |-> input.amount,
   account_id |-> input.account_id, to_account_id |-> input.to_account_id,
   category_id |-> input.category_id, frequency |-> input.frequency,
   interval_days |-> IF input.frequency = "CUSTOM"
                     THEN Max(IF input.interval_days = NULL THEN 1 ELSE input.interval_days, 1)
                     ELSE 1,
   start_date |-> input.start_date, end_date |-> input.end_date,
   next_execution_date |-> input.start_date,
   last_executed_date |-> RecurringDefaults.last_executed_date,
   execution_count |-> RecurringDefaults.execution_count,
   is_active |-> RecurringDefaults.is_active]

\* NULL stands for the Err of a date the calendar lacks.
calculate_next_execution_date(current_date, frequency, interval_days) ==
  CASE frequency = "DAILY" -> AddDays(current_date, 1)
    [] frequency = "WEEKLY" -> AddDays(current_date, 7)
    [] frequency = "MONTHLY" ->
         IF Month(current_date) = 12
         THEN FromYmdOpt(Year(current_date) + 1, 1, Day(current_date))
         ELSE FromYmdOpt(Year(current_date), Month(current_date) + 1, Day(current_date))
    [] frequency = "YEARLY" ->
         FromYmdOpt(Year(current_date) + 1, Month(current_date), Day(current_date))
    [] frequency = "CUSTOM" -> AddDays(current_date, interval_days)
    [] OTHER -> NULL

DueRecurring(rec, t) == {r \in rec : r.is_active = 1 /\ r.next_execution_date <= t}

\* The loop of process_recurring_transactions over the fetched rows.  w holds
\* the ledger, the recurring table and the ids posted so far; the store fails
\* on the create_transaction or on the UPDATE of row number fail_row.
RECURSIVE ProcessRows(_, _, _, _, _, _)
ProcessRows(w, rows, index, t, fail_row, fail_update) ==
  IF index > Len(rows) THEN [w EXCEPT !.ok = TRUE]
  ELSE
    LET row == rows[index]
        transaction_input == TxnInput(t, row.transaction_type, row.amount, row.account_id,
                                      row.to_account_id, row.category_id, RecurringMemo)
        created == create_transaction(w.db, transaction_input,
                                      IF fail_row = index /\ ~fail_update THEN 1 ELSE 0)
        new_next_date == calculate_next_execution_date(row.next_execution_date,
                                                       row.frequency, row.interval_days)
        should_deactivate == row.end_date # NULL /\ new_next_date > row.end_date
        posted == [w EXCEPT !.db = created.db, !.ids = Append(@, created.id)]
        updated_row(r) ==
          IF should_deactivate
          THEN [r EXCEPT !.last_executed_date = t, !.execution_count = @ + 1,
                         !.is_active = 0]
          ELSE [r EXCEPT !.next_execution_date = new_next_date,
                         !.last_executed_date = t, !.execution_count = @ + 1]
    IN IF ~created.ok
       THEN ProcessRows([w EXCEPT !.db = created.db], rows, index + 1, t,
                        fail_row, fail_update)
       ELSE IF new_next_date = NULL
            THEN [posted EXCEPT !.ok = FALSE,
                                !.err = IF row.frequency = "MONTHLY"
                                        THEN "Invalid next month date"
                                        ELSE "Invalid next year date"]
       ELSE IF fail_row = index /\ fail_update
            THEN [posted EXCEPT !.ok = FALSE, !.err = "store error"]
       ELSE ProcessRows([posted EXCEPT !.rec = {IF r.id = row.id THEN updated_row(r) ELSE r
                                                : r \in @}],
                        rows, index + 1, t, fail_row, fail_update)

\* The rows come back in whatever order the store yields them.
process_recurring_transactions(db, rec, t, fail_row, fail_update) ==
  {ProcessRows([db |-> db, rec |-> rec, ids |-> <<>>, ok |-> TRUE, err |-> ""],
               rows, 1, t, fail_row, fail_update)
   : rows \in Orders(DueRecurring(rec, t))}

RecurringStarts == {20250131, 20240229}
RecurringInputs ==
  { RecurringInput("EXPENSE", 5000, BankAccount, NULL, f, 10, s, NULL)
      : f \in Frequencies, s \in RecurringStarts }
  \cup { RecurringInput("EXPENSE", 5000, BankAccount, NULL, "MONTHLY", NULL, 20250105, 20250210),
         RecurringInput("TRANSFER", 5000, BankAccount, CardAccount, "MONTHLY", NULL,
                        20250105, NULL),
         RecurringInput("EXPENSE", 5000, BankAccount, NULL, "HOURLY", NULL, 20250105, NULL),
         RecurringInput("EXPENSE", 0, BankAccount, NULL, "DAILY", NULL, 20250105, NULL),
         RecurringInput("EXPENSE", 5000, BankAccount, NULL, "DAILY", NULL, 20250230, NULL),
         RecurringInput("EXPENSE", 5000, BankAccount, NULL, "DAILY", NULL, 20250115, 20250105) }

CreateRecurringTransaction ==
  \E input \in RecurringInputs :
    LET err == create_recurring_transaction_error(DB, input) IN
      /\ rec_seq < MaxRecurring
      /\ IF err # ""
         THEN /\ last_result' = Result("create_recurring_transaction", input, FALSE, err, NULL)
              /\ UNCHANGED <<StoreVars, today>>
         ELSE /\ recurring_transactions' =
                   recurring_transactions \cup {RecurringRow(rec_seq + 1, input)}
              /\ rec_seq' = rec_seq + 1
              /\ last_result' = Result("create_recurring_transaction", input, TRUE, "",
                                       rec_seq + 1)
              /\ CommitStore(DB)
              /\ UNCHANGED <<calls, Security, today>>

ProcessRecurringTransactions ==
  \E fail_row \in 0..MaxRecurring, fail_update \in BOOLEAN :
    \E out \in process_recurring_transactions(DB, recurring_transactions, today,
                                              fail_row, fail_update) :
      /\ fail_row = 0 => ~fail_update
      /\ txn_seq + Cardinality(DueRecurring(recurring_transactions, today)) <= MaxRecurringTxns
      /\ CommitStore(out.db)
      /\ recurring_transactions' = out.rec
      /\ last_result' = Result("process_recurring_transactions",
                               [fail_row |-> fail_row, fail_update |-> fail_update],
                               out.ok, out.err, out.ids)
      /\ UNCHANGED <<rec_seq, calls, Security, today>>

NextRecurring == CreateRecurringTransaction \/ ProcessRecurringTransactions \/ AdvanceDay

SpecRecurring == Init /\ [][NextRecurring]_vars

\* ------------------------------------------------ installment plan life cycle
\* cancel_installment_plan: one UPDATE by id, whatever the plan's status; a
\* plan_id with no row changes nothing and still answers Ok.
cancel_installment_plan(db, plan_id, fail) ==
  IF PoolFailed(fail, 1) THEN Outcome(db, FALSE, "store error", NULL)
  ELSE Outcome([db EXCEPT !.plans = {IF p.id = plan_id THEN [p EXCEPT !.status = "CANCELLED"]
                                     ELSE p : p \in @}],
               TRUE, "", NULL)

\* Plans whose total does not divide evenly into cents, next to one that does.
RoundedPlanInputs(d) ==
  { PlanInput(30000, 2, BankAccount, FoodCategory, d),
    PlanInput(Cent, 3, BankAccount, FoodCategory, d),
    PlanInput(2 * Cent, 4, BankAccount, FoodCategory, d),
    PlanInput(100 * Cent, 3, BankAccount, FoodCategory, d),
    PlanInput(30000, 0, BankAccount, FoodCategory, d) }

CreateRoundedPlan ==
  \E plan \in RoundedPlanInputs(today) :
    LET out == create_installment_plan(DB, plan, 0) IN
      /\ plan_seq < MaxPlans
      /\ Commit(out.db)
      /\ last_result' = Result("create_installment_plan", plan, out.ok, out.err, out.id)
      /\ UNCHANGED today

CancelInstallmentPlan ==
  \E plan_id \in 1..MaxPlans, fail \in {0, 1} :
    LET out == cancel_installment_plan(DB, plan_id, fail) IN
      /\ Commit(out.db)
      /\ last_result' = Result("cancel_installment_plan", [plan_id |-> plan_id],
                               out.ok, out.err, out.id)
      /\ UNCHANGED today

NextInstallments ==
  CreateRoundedPlan \/ ProcessInstallmentPayment \/ CancelInstallmentPlan \/ AdvanceDay

SpecInstallments == InitBilling /\ [][NextInstallments]_vars

\* ------------------------------------------------------------- PIN lock
MAX_FAILED_ATTEMPTS == 5
LOCKOUT_SECONDS == 30
MIN_PIN_LENGTH == 4
MAX_PIN_LENGTH == 8
MaxNow == 3 * LOCKOUT_SECONDS
TickSeconds == LOCKOUT_SECONDS \div 2

Digits == {"0", "1", "2", "3", "4", "5", "6", "7", "8", "9"}

\* A PIN is the sequence of its characters.
validate_pin_format(pin) ==
  IF Len(pin) < MIN_PIN_LENGTH \/ Len(pin) > MAX_PIN_LENGTH THEN "PIN must be 4-8 digits"
  ELSE IF \E i \in 1..Len(pin) : pin[i] \notin Digits
       THEN "PIN must contain only digits (0-9)"
  ELSE ""

\* bcrypt: the hash is not the PIN, and verify accepts exactly the PIN hashed.
hash(pin) == <<"$2b$">> \o pin
verify(pin, stored_hash) == stored_hash = hash(pin)

\* "" for Ok(()).
verify_pin_internal(s, pin) ==
  IF s.pin_hash = <<>> THEN "No PIN is set"
  ELSE IF verify(pin, s.pin_hash) THEN ""
  ELSE "Incorrect PIN"

\* The guess was compared with the stored hash.
Compared(s) == s.pin_hash # <<>>

\* check_lockout: the rejection, and the settings it leaves (reset once the
\* lockout time has passed).
check_lockout(s, clock) ==
  IF s.lockout_until = NULL THEN [err |-> "", s |-> s]
  ELSE IF clock < s.lockout_until THEN [err |-> "Account locked", s |-> s]
  ELSE [err |-> "", s |-> [s EXCEPT !.failed_attempts = 0, !.lockout_until = NULL]]

SecurityOutcome(s, ok, err, compared) ==
  [s |-> s, ok |-> ok, err |-> err, compared |-> compared]

set_pin(s, new_pin, current_pin) ==
  IF validate_pin_format(new_pin) # ""
    THEN SecurityOutcome(s, FALSE, validate_pin_format(new_pin), FALSE)
  ELSE IF s.pin_enabled = "true" /\ current_pin = <<>>
    THEN SecurityOutcome(s, FALSE, "Current PIN is required to change your PIN", FALSE)
  ELSE IF s.pin_enabled = "true" /\ verify_pin_internal(s, current_pin) # ""
    THEN SecurityOutcome(s, FALSE, verify_pin_internal(s, current_pin), Compared(s))
  ELSE SecurityOutcome([pin_hash |-> hash(new_pin), pin_enabled |-> "true",
                        failed_attempts |-> 0, lockout_until |-> NULL],
                       TRUE, "", s.pin_enabled = "true")

verify_pin(s, pin, clock) ==
  LET checked == check_lockout(s, clock)
      after == checked.s
      attempts == after.failed_attempts + 1
  IN IF checked.err # "" THEN SecurityOutcome(s, FALSE, checked.err, FALSE)
     ELSE IF verify_pin_internal(after, pin) = ""
       THEN SecurityOutcome([after EXCEPT !.failed_attempts = 0, !.lockout_until = NULL],
                            TRUE, "", TRUE)
     ELSE IF attempts >= MAX_FAILED_ATTEMPTS
       THEN SecurityOutcome([after EXCEPT !.failed_attempts = attempts,
                                          !.lockout_until = clock + LOCKOUT_SECONDS],
                            FALSE, "Too many failed attempts", Compared(after))
     ELSE SecurityOutcome([after EXCEPT !.failed_attempts = attempts],
                          FALSE, "Incorrect PIN, attempts remaining", Compared(after))

remove_pin(s, current_pin) ==
  IF verify_pin_internal(s, current_pin) # ""
    THEN SecurityOutcome(s, FALSE, verify_pin_internal(s, current_pin), Compared(s))
  ELSE SecurityOutcome([pin_hash |-> <<>>, pin_enabled |-> "false",
                        failed_attempts |-> 0, lockout_until |-> NULL], TRUE, "", TRUE)

OwnerPin == <<"1", "2", "3", "4">>
GuessedPin == <<"0", "0", "0", "0">>
ShortPin == <<"1", "2">>
WordPin == <<"p", "a", "s", "s">>
NoCurrentPin == <<>>

\* The count of incorrect guesses compared with the stored hash: it starts
\* again when a lockout begins and when the right PIN is given.
GuessesAfter(out) ==
  IF out.ok \/ (out.s.lockout_until # app_settings.lockout_until /\ out.s.lockout_until # NULL)
  THEN 0
  ELSE IF out.compared THEN guesses + 1 ELSE guesses

SecurityStep(op, pin, out) ==
  /\ app_settings' = out.s
  /\ guesses' = GuessesAfter(out)
  /\ last_result' = Result(op, [pin |-> pin, compared |-> out.compared], out.ok, out.err, NULL)
  /\ CommitStore(DB)
  /\ UNCHANGED <<calls, Schedules, now, today>>

SetPin ==
  \E new_pin \in {OwnerPin, ShortPin, WordPin},
     current_pin \in {NoCurrentPin, OwnerPin, GuessedPin} :
    /\ guesses <= MAX_FAILED_ATTEMPTS
    /\ SecurityStep("set_pin", current_pin, set_pin(app_settings, new_pin, current_pin))

VerifyPin ==
  \E pin \in {OwnerPin, GuessedPin} :
    /\ guesses <= MAX_FAILED_ATTEMPTS
    /\ SecurityStep("verify_pin", pin, verify_pin(app_settings, pin, now))

RemovePin ==
  \E current_pin \in {OwnerPin, GuessedPin} :
    /\ guesses <= MAX_FAILED_ATTEMPTS
    /\ SecurityStep("remove_pin", current_pin, remove_pin(app_settings, current_pin))

Tick ==
  /\ now < MaxNow
  /\ now' = now + TickSeconds
  /\ last_result' = Result("clock", NoInput, TRUE, "", NULL)
  /\ CommitStore(DB)
  /\ UNCHANGED <<calls, Schedules, app_settings, guesses, today>>

NextSecurity == SetPin \/ VerifyPin \/ RemovePin \/ Tick

SpecSecurity == Init /\ [][NextSecurity]_vars

\* ================================================================ claims
EntriesOfTxn(transaction_id) == {e \in journal_entries : e.transaction_id = transaction_id}
DebitSum(transaction_id) ==
  LET es == EntriesOfTxn(transaction_id) IN SumOver(es, [e \in es |-> e.debit])
CreditSum(transaction_id) ==
  LET es == EntriesOfTxn(transaction_id) IN SumOver(es, [e \in es |-> e.credit])
PostedBy(op) == last_result.op = op /\ last_result.ok
LedgerTables == <<transactions, journal_entries, txn_seq, je_seq>>

\* C1 (as stated): for every posted transaction of any kind, the debit
\* amounts of its journal entries sum to the same value as the credit amounts.
C1_DebitsEqualCredits ==
  \A t \in transactions : DebitSum(t.id) = CreditSum(t.id)

\* C1 (amended): a TRANSFER is balanced (debits = credits = amount); an INCOME
\* is one debit of the amount with no credit, an EXPENSE one credit of the
\* amount with no debit.
C1_PostingByKind ==
  \A t \in transactions :
    /\ t.type = "TRANSFER" => DebitSum(t.id) = t.amount /\ CreditSum(t.id) = t.amount
    /\ t.type = "INCOME" => DebitSum(t.id) = t.amount /\ CreditSum(t.id) = 0
    /\ t.type = "EXPENSE" => DebitSum(t.id) = 0 /\ CreditSum(t.id) = t.amount

C1_Witness ==
  /\ PostedBy("create_transaction")
  /\ \A k \in Kinds : \E t \in transactions : t.type = k

\* C2: create_transaction is all-or-nothing.  A failed call leaves the
\* transactions and journal_entries tables as they were; a successful call
\* adds exactly one transaction row and exactly its 1 (INCOME, EXPENSE) or
\* 2 (TRANSFER) journal entries.
C2_AtomicPost ==
  [][ last_result'.op = "create_transaction" =>
        IF last_result'.ok
        THEN /\ \E t \in transactions' \ transactions :
                  /\ transactions' = transactions \cup {t}
                  /\ t.id = last_result'.id
                  /\ \A e \in journal_entries' \ journal_entries : e.transaction_id = t.id
                  /\ Cardinality(journal_entries' \ journal_entries)
                       = (IF t.type = "TRANSFER" THEN 2 ELSE 1)
             /\ journal_entries \subseteq journal_entries'
        ELSE UNCHANGED LedgerTables ]_vars

C2_Witness ==
  /\ last_result.op = "create_transaction"
  /\ ~last_result.ok
  /\ last_result.err = "store error"
  /\ last_result.input.transaction_type = "TRANSFER"
  /\ transactions # {}

\* C3: the balance the code computes for an account equals initial_balance
\* plus the net effect of the posted transactions whatever the order they
\* were posted in (the expected value is computed from the unordered set of
\* transactions, ignoring ids), and with an as-of date d only transactions
\* dated <= d count; both balance queries agree on the all-time balance.
EffectOn(t, account_id) ==
  (IF t.type = "INCOME" /\ t.account_id = account_id THEN t.amount ELSE 0)
  - (IF t.type = "EXPENSE" /\ t.account_id = account_id THEN t.amount ELSE 0)
  - (IF t.type = "TRANSFER" /\ t.account_id = account_id THEN t.amount ELSE 0)
  + (IF t.type = "TRANSFER" /\ t.to_account_id = account_id THEN t.amount ELSE 0)

ExpectedBalance(account, as_of) ==
  LET ts == {t \in transactions : as_of = NULL \/ t.date <= as_of}
  IN account.initial_balance + SumOver(ts, [t \in ts |-> EffectOn(t, account.id)])

C3_BalanceAsOf ==
  \A a \in accounts :
    /\ current_balance(DB, a) = ExpectedBalance(a, NULL)
    /\ \A d \in Days \cup {NULL} : balance_as_of(DB, a, d) = ExpectedBalance(a, d)

C3_Witness ==
  \E a \in accounts :
    /\ balance_as_of(DB, a, FirstDay) # a.initial_balance
    /\ balance_as_of(DB, a, FirstDay) # balance_as_of(DB, a, NULL)
    /\ \E t1, t2 \in transactions : t1.date = FirstDay /\ t2.date > FirstDay
                                     /\ t1.type # t2.type

\* C4: create_transaction answers with an error and changes neither table
\* when the kind is unknown, the amount is <= 0, the source account is
\* missing, a TRANSFER lacks a destination or names a missing one or the
\* source itself, or a given category is missing.
ClaimedInvalid(input) ==
  \/ input.transaction_type \notin {"INCOME", "EXPENSE", "TRANSFER"}
  \/ input.amount <= 0
  \/ \A a \in accounts : a.id # input.account_id
  \/ /\ input.transaction_type = "TRANSFER"
     /\ \/ input.to_account_id = NULL
        \/ input.to_account_id = input.account_id
        \/ \A a \in accounts : a.id # input.to_account_id
  \/ input.category_id # NULL /\ ~CategoryExists(DB, input.category_id)

C4_RejectsInvalid ==
  [][ (last_result'.op = "create_transaction" /\ ClaimedInvalid(last_result'.input)) =>
        (~last_result'.ok /\ last_result'.err # "" /\ UNCHANGED LedgerTables) ]_vars

C4_Witness ==
  /\ last_result.op = "create_transaction"
  /\ last_result.err = "Cannot transfer to the same account"
  /\ transactions # {}

\* ------------------------------------------------------------ sole writer
\* The request that would have produced a stored transaction row.
RequestOf(t) ==
  TxnInput(t.date, t.type, t.amount, t.account_id, t.to_account_id, NULL, t.memo)

Postings(entries) ==
  {[account_id |-> e.account_id, debit |-> e.debit, credit |-> e.credit] : e \in entries}

PosterPostings(t) ==
  LET rows == PosterEntries(t.type, t.id, t.account_id, t.to_account_id, t.amount, 0)
  IN Postings({rows[i] : i \in 1..Len(rows)})

\* C5: in every reachable state, every stored transaction row is one the
\* Poster accepts (valid kind, amount > 0, existing source account, TRANSFER
\* with an existing destination other than the source) and its journal
\* entries are exactly the Poster's entries for its kind.
C5_PosterSoleWriter ==
  \A t \in transactions :
    /\ create_transaction_error(DB, RequestOf(t)) = ""
    /\ Cardinality(EntriesOfTxn(t.id)) = Cardinality(PosterPostings(t))
    /\ Postings(EntriesOfTxn(t.id)) = PosterPostings(t)

\* ------------------------------------------------------- billing claims
StatementById(S, id) == CHOOSE s \in S : s.id = id
\* What a step added to the paid_amount of a statement that existed before it.
Allocated(s) ==
  IF \E n \in statements' : n.id = s.id
  THEN StatementById(statements', s.id).paid_amount - s.paid_amount ELSE 0
SettledStep ==
  \/ last_result'.op = "settle_credit_card" /\ last_result'.ok
  \/ last_result'.op = "process_auto_settlements" /\ last_result'.id >= 1
EarlierDue(s) ==
  {o \in statements : o.credit_card_id = s.credit_card_id /\ o.status # "PAID"
                        /\ o.due_date < s.due_date}

\* C6 (as stated, its state invariant): in every reachable state no statement
\* has paid_amount > closing_balance, i.e. remaining is never negative.
C6_RemainingNeverNegative ==
  \A s \in statements : s.paid_amount <= s.closing_balance

\* C6 (amended): a settlement gives each non-PAID statement of the card, in
\* ascending due_date order, min(payment still unallocated, closing_balance -
\* paid_amount) when that is positive and nothing otherwise; no statement has
\* paid_amount > max(closing_balance, 0); and a statement receives money only
\* once every earlier-due non-PAID statement of the card is fully covered.
C6_OldestFirstAllocation ==
  /\ [](\A s \in statements : s.paid_amount <= Max(s.closing_balance, 0))
  /\ [][ \A s \in statements :
           /\ (SettledStep /\ s.status # "PAID"
                 /\ s.credit_card_id = TheCard /\ transactions' # transactions) =>
                LET payment == (CHOOSE t \in transactions' \ transactions : TRUE).amount
                    before == EarlierDue(s)
                    unallocated == payment - SumOver(before, [o \in before |-> Allocated(o)])
                IN Allocated(s) = Max(0, Min(unallocated, s.closing_balance - s.paid_amount))
           /\ Allocated(s) > 0 =>
                \A o \in EarlierDue(s) :
                  StatementById(statements', o.id).paid_amount >= o.closing_balance ]_vars

\* A payment larger than the oldest statement's remainder spilled over to the
\* next one.
C6_Witness ==
  /\ PostedBy("settle_credit_card")
  /\ last_result.input.amount = 30000
  /\ \E s1, s2 \in statements :
       /\ s1.due_date < s2.due_date
       /\ s1.paid_date = today /\ s2.paid_date = today
       /\ s1.status = "PAID" /\ s1.paid_amount = s1.closing_balance
       /\ s2.status = "PARTIAL" /\ s2.paid_amount > 0

\* C7: statuses only move forward along OPEN, CLOSED, PARTIAL, PAID; a
\* statement that receives payment becomes PAID exactly when
\* |paid_amount - closing_balance| < 0.01 and PARTIAL otherwise; and a PAID
\* statement is never changed again by settle_credit_card,
\* process_auto_settlements or generate_statement.
StatusRank(status) ==
  CASE status = "OPEN" -> 1 [] status = "CLOSED" -> 2 [] status = "PARTIAL" -> 3
    [] status = "PAID" -> 4 [] OTHER -> 0

C7_StatusMachine ==
  [][ \A s \in statements :
        /\ \E n \in statements' : n.id = s.id
        /\ LET n == StatementById(statements', s.id) IN
             /\ StatusRank(n.status) >= StatusRank(s.status)
             /\ n.paid_amount # s.paid_amount =>
                  (n.status = "PAID" <=> Abs(n.paid_amount - n.closing_balance) < 10)
                  /\ n.status \in {"PAID", "PARTIAL"}
             /\ n.status # s.status => n.paid_amount # s.paid_amount
             /\ s.status = "PAID" => n = s ]_vars

\* A statement closed within the tolerance (paid short of its closing
\* balance) is still PAID and untouched after a later successful settlement.
C7_Witness ==
  /\ PostedBy("settle_credit_card")
  /\ \E s \in statements :
       /\ s.status = "PAID" /\ s.paid_amount < s.closing_balance
       /\ s.paid_date < today
       /\ \E t \in transactions : t.id = last_result.id /\ t.date = today

\* C8: generate_statement fails and inserts nothing when the card already
\* has a statement for the current cycle, so there is at most one statement
\* per (card, cycle_start, cycle_end).
C8_OnePerCycle ==
  /\ [](\A s1, s2 \in statements :
          (s1.credit_card_id = s2.credit_card_id
             /\ s1.cycle_start_date = s2.cycle_start_date
             /\ s1.cycle_end_date = s2.cycle_end_date) => s1 = s2)
  /\ [][ (last_result'.op = "generate_statement"
            /\ \E c \in settings, s \in statements :
                 /\ c.id = last_result'.input.settings_id
                 /\ s.credit_card_id = c.id
                 /\ <<s.cycle_start_date, s.cycle_end_date>>
                      = compute_current_cycle_dates(today, c.statement_day)) =>
           (~last_result'.ok /\ statements' = statements /\ stmt_seq' = stmt_seq) ]_vars

C8_Witness ==
  /\ last_result.op = "generate_statement"
  /\ last_result.err = "Statement already exists for this billing cycle"
  /\ \E s \in statements : s.cycle_end_date >= today /\ s.cycle_start_date <= today

\* C9: when process_auto_settlements has posted a payment for the card and is
\* invoked again on the same day, the later invocation posts nothing further.
C9_OncePerDay ==
  [][ (last_result.op = "process_auto_settlements" /\ last_result.id >= 1
         /\ last_result'.op = "process_auto_settlements" /\ today' = today) =>
        (transactions' = transactions /\ journal_entries' = journal_entries) ]_vars

\* C10: a settle_credit_card call that fails at any step leaves no payment
\* transaction, journal entry or statement change behind.
C10_SettleAtomic ==
  [][ (last_result'.op = "settle_credit_card" /\ ~last_result'.ok) =>
        (transactions' = transactions /\ journal_entries' = journal_entries
           /\ statements' = statements) ]_vars

\* ------------------------------------------------------- cycle claims
\* C11: for statement_day D in 1..28 the computed cycle ends on day D and
\* starts the day after day D of the month before the one it ends in; it
\* ends in today's month when today's day-of-month <= D and in the next month
\* otherwise (also across year boundaries); for D = 25, 2025-03-10 gives
\* [2025-02-26, 2025-03-25] and 2025-03-26 gives [2025-03-26, 2025-04-25].
C11_CycleDates ==
  last_result.op = "compute_current_cycle_dates" =>
    LET t == last_result.input.today
        D == last_result.input.statement_day
        cycle_start == last_result.id[1]
        cycle_end == last_result.id[2]
    IN /\ Day(cycle_end) = D
       /\ Day(PredDay(cycle_start)) = D
       /\ MonthIndex(cycle_end) = MonthIndex(PredDay(cycle_start)) + 1
       /\ MonthIndex(cycle_end) = MonthIndex(t) + (IF Day(t) <= D THEN 0 ELSE 1)
       /\ (t = 20250310 /\ D = 25) => last_result.id = <<20250226, 20250325>>
       /\ (t = 20250326 /\ D = 25) => last_result.id = <<20250326, 20250425>>

\* A cycle that starts in December of one year and ends in January of the next.
C11_Witness ==
  /\ last_result.op = "compute_current_cycle_dates"
  /\ last_result.input.today = 20241226
  /\ last_result.input.statement_day = 25
  /\ last_result.id = <<20241226, 20250125>>

\* --------------------------------------------------- statement figures
\* C12: a generated statement stores total_charges = the EXPENSE amounts on
\* the card account dated within the cycle, total_payments = the TRANSFER
\* amounts into the card account dated within the cycle, opening_balance =
\* the closing_balance of the card's most recent prior statement or, for the
\* first statement, charges minus payments dated before cycle_start,
\* closing_balance = opening + charges - payments, minimum_payment =
\* max(0, closing_balance * minimum_payment_percentage / 100) to the cent,
\* and a due date on payment_due_day of the month after cycle_end.
C12_StatementFigures ==
  [][ (last_result'.op = "generate_statement" /\ last_result'.ok) =>
        LET s == CHOOSE n \in statements' : n.id = last_result'.id
            card == SettingsOf(DB, s.credit_card_id)
            within == [d \in TxnDates(DB) |->
                         InRange(d, s.cycle_start_date, s.cycle_end_date)]
            before == [d \in TxnDates(DB) |-> d < s.cycle_start_date]
            prior == CardStatements(DB, s.credit_card_id)
            latest == {p \in prior : \A o \in prior : o.cycle_end_date <= p.cycle_end_date}
        IN /\ s.total_charges = ChargesWhere(DB, card.account_id, within)
           /\ s.total_payments = PaymentsWhere(DB, card.account_id, within)
           /\ prior # {} => \E p \in latest : s.opening_balance = p.closing_balance
           /\ prior = {} =>
                s.opening_balance = ChargesWhere(DB, card.account_id, before)
                                      - PaymentsWhere(DB, card.account_id, before)
           /\ s.closing_balance = s.opening_balance + s.total_charges - s.total_payments
           /\ Abs(100 * s.minimum_payment
                    - Max(0, s.closing_balance * card.minimum_payment_percentage))
                <= 50 * Cent
           /\ Day(s.due_date) = card.payment_due_day
           /\ MonthIndex(s.due_date) = MonthIndex(s.cycle_end_date) + 1 ]_vars

\* -------------------------------------------------- settlement validation
\* The amount the card account owes: -(initial_balance + debits - credits).
Owed(account_id) ==
  LET account == CHOOSE a \in accounts : a.id = account_id
      es == {e \in journal_entries : e.account_id = account_id}
  IN 0 - (account.initial_balance + SumOver(es, [e \in es |-> e.debit])
            - SumOver(es, [e \in es |-> e.credit]))

\* The settlement requests the claim lists as refused, for an existing card.
RefusedSettlement(input) ==
  /\ \E c \in settings : c.id = input.credit_card_settings_id
  /\ LET card == CHOOSE c \in settings : c.id = input.credit_card_settings_id IN
       \/ ~\E a \in accounts : a.id = input.payment_account_id
       \/ \E a \in accounts : a.id = input.payment_account_id /\ a.type # "ASSET"
       \/ input.payment_account_id = card.account_id
       \/ input.has_amount /\ input.amount <= 0
       \/ ~input.has_amount /\ Owed(card.account_id) <= 0

\* C13: settle_credit_card fails and writes nothing when the payment account
\* does not exist, is not an ASSET account or is the card's own account, when
\* an explicit amount is <= 0, or when no amount is given and the card's
\* total_balance is <= 0; a successful call without an amount posts a TRANSFER
\* of the full total_balance.
C13_SettleValidation ==
  [][ last_result'.op = "settle_credit_card" =>
        /\ RefusedSettlement(last_result'.input) =>
             /\ ~last_result'.ok
             /\ transactions' = transactions
             /\ journal_entries' = journal_entries
             /\ statements' = statements
        /\ (last_result'.ok /\ ~last_result'.input.has_amount) =>
             \E t \in transactions' \ transactions :
               /\ t.id = last_result'.id
               /\ t.type = "TRANSFER"
               /\ t.amount = Owed(t.to_account_id)
               /\ t.amount > 0 ]_vars

\* After the full balance was paid without naming an amount, a second such
\* request is refused.
C13_Witness ==
  /\ last_result.op = "settle_credit_card"
  /\ last_result.err = "No outstanding balance to pay"
  /\ \E t \in transactions :
       /\ t.type = "TRANSFER" /\ t.memo = CardPaymentMemo(t.to_account_id)
       /\ t.amount = 20000
  /\ \A c \in settings : Owed(c.account_id) = 0

\* ------------------------------------------------------- card figures
\* C14: the reported figures satisfy total_balance = max(0, owed),
\* outstanding_balance = max(0, cycle charges - cycle payments),
\* available_credit = max(0, credit_limit - total_balance) and utilization =
\* total_balance / credit_limit * 100 (to two decimals; 0 when the limit is
\* 0), total_balance being the reported, clamped value; available_credit
\* never exceeds credit_limit and utilization is never negative.
C14_CardFigures ==
  (last_result.op = "get_credit_card_details" /\ last_result.ok) =>
    LET b == last_result.id
        card == CHOOSE c \in settings : c.id = last_result.input.settings_id
    IN /\ b.total_balance = Max(0, Owed(card.account_id))
       /\ b.outstanding_balance = Max(0, b.current_cycle_charges - b.current_cycle_payments)
       /\ b.available_credit = Max(0, card.credit_limit - b.total_balance)
       /\ b.utilization_percentage =
            (IF card.credit_limit = 0 THEN 0
             ELSE RoundDiv(b.total_balance * 10000, card.credit_limit))
       /\ b.available_credit <= card.credit_limit
       /\ b.utilization_percentage >= 0

\* ----------------------------------------------------------- rate claims
StoredRates(from, to, date) ==
  {r \in exchange_rates :
     r.from_currency = from /\ r.to_currency = to /\ r.effective_date <= date}

IsLatest(r, rows) == r \in rows /\ \A o \in rows : o.effective_date <= r.effective_date

\* C15: rate(from, to, date) is 1.0 when from = to; otherwise the rate of the
\* stored (from, to) row with the latest effective_date <= date; otherwise
\* 1/r for the stored (to, from) row with the latest effective_date <= date
\* (an error when r <= 0); otherwise a no-rate-found error.  With only
\* USD->LKR = 300 effective 2025-01-01 stored, rate(LKR, USD, 2025-01-05) is
\* 1/300 and rate(USD, LKR, 2024-12-01) fails.
C15_RateLookup ==
  last_result.op = "get_exchange_rate" =>
    LET from == to_uppercase(last_result.input.from_currency)
        to == to_uppercase(last_result.input.to_currency)
        date == last_result.input.date
        direct == StoredRates(from, to, date)
        inverse == StoredRates(to, from, date)
        only300 == /\ Cardinality(exchange_rates) = 1
                   /\ \E r \in exchange_rates :
                        /\ r.from_currency = "USD" /\ r.to_currency = "LKR"
                        /\ r.rate = Rate(300, 1) /\ r.effective_date = 20250101
    IN /\ from = to => last_result.ok /\ RateEq(last_result.id.rate, Rate(1, 1))
       /\ (from # to /\ direct # {}) =>
            /\ last_result.ok
            /\ \E r \in direct : IsLatest(r, direct) /\ RateEq(last_result.id.rate, r.rate)
       /\ (from # to /\ direct = {} /\ inverse # {}) =>
            \E r \in inverse :
              /\ IsLatest(r, inverse)
              /\ r.rate.num > 0 =>
                   last_result.ok /\ RateEq(last_result.id.rate, Rate(r.rate.den, r.rate.num))
              /\ r.rate.num <= 0 => ~last_result.ok
       /\ (from # to /\ direct = {} /\ inverse = {}) =>
            ~last_result.ok /\ last_result.err = "No exchange rate found"
       /\ (only300 /\ from = "LKR" /\ to = "USD" /\ date = 20250105) =>
            last_result.ok /\ RateEq(last_result.id.rate, Rate(1, 300))
       /\ (only300 /\ from = "USD" /\ to = "LKR" /\ date = 20241201) => ~last_result.ok

\* The inverse of the later of two stored rates is returned.
C15_Witness ==
  /\ last_result.op = "get_exchange_rate"
  /\ last_result.input = [from_currency |-> "lkr", to_currency |-> "USD", date |-> 20250105]
  /\ last_result.ok
  /\ last_result.id.rate = Rate(1, 310)
  /\ Cardinality(StoredRates("USD", "LKR", 20250105)) = 2


SnapshotDates == {r.snapshot_date : r \in snapshots}

BackfillStep == last_result'.op = "backfill_net_worth_snapshots"

\* C16: backfill leaves a non-empty snapshot table exactly as it was, so a
\* second run adds nothing, and after any run no two snapshots share a
\* snapshot_date.
C16_BackfillOnce ==
  [][BackfillStep =>
       /\ snapshots # {} => snapshots' = snapshots /\ snap_seq' = snap_seq
       /\ \A r1, r2 \in snapshots' : r1.snapshot_date = r2.snapshot_date => r1 = r2]_vars

\* Backfill has just returned on a table that held a snapshot while a month
\* end of the ledger's history is still missing from it.
C16_Witness ==
  /\ last_result.op = "backfill_net_worth_snapshots"
  /\ last_result.ok
  /\ snapshots # {}
  /\ \E t \in transactions :
       /\ last_day_of_month(Year(t.date), Month(t.date)) <= today
       /\ last_day_of_month(Year(t.date), Month(t.date)) \notin SnapshotDates


MonthEnds == {last_day_of_month(y, m) : y \in 2024..2025, m \in 1..12}

EarliestTxnDate == CHOOSE d \in TxnDates(DB) : \A o \in TxnDates(DB) : d <= o

\* C17: run on an empty snapshot table, a backfill that succeeds stores exactly
\* one row per month end from the month of the earliest transaction up to but
\* not including the month of today, each with the net worth as of that month
\* end, and so no row for the current month.
C17_BackfillRange ==
  [][BackfillStep /\ snapshots = {} /\ last_result'.ok =>
       /\ transactions = {} => snapshots' = {}
       /\ transactions # {} =>
            /\ {r.snapshot_date : r \in snapshots'}
                 = {d \in MonthEnds : /\ MonthIndex(EarliestTxnDate) <= MonthIndex(d)
                                      /\ MonthIndex(d) < MonthIndex(today)}
            /\ \A r \in snapshots' :
                 /\ r = SnapshotRow(r.id, r.snapshot_date, calc_net_worth_at(DB, r.snapshot_date))
                 /\ \A o \in snapshots' : o.snapshot_date = r.snapshot_date => o = r]_vars


GenerateStep == last_result'.op = "generate_net_worth_snapshot" /\ last_result'.ok

CurrentMonthEnd == last_day_of_month(Year(today), Month(today))

RowsDated(rows, date) == {r \in rows : r.snapshot_date = date}

\* C18: after a successful generate_net_worth_snapshot the table holds exactly
\* one row dated the last day of today's month, with the all-time totals of
\* the ledger at the call; the rows of other months are untouched, and a call
\* that finds the month's row already holding these totals changes nothing.
C18_GenerateUpsert ==
  [][GenerateStep =>
       /\ \E r \in snapshots' :
            /\ RowsDated(snapshots', CurrentMonthEnd) = {r}
            /\ r = SnapshotRow(r.id, CurrentMonthEnd, calc_net_worth_at(DB, NULL))
       /\ snapshots' \ RowsDated(snapshots', CurrentMonthEnd)
            = snapshots \ RowsDated(snapshots, CurrentMonthEnd)
       /\ (\E r \in snapshots :
             r = SnapshotRow(r.id, CurrentMonthEnd, calc_net_worth_at(DB, NULL)))
            => snapshots' = snapshots /\ snap_seq' = snap_seq]_vars

\* On 2025-01-31 the month's row was written by backfill together with the row
\* of 2024-12-31, and the snapshot call has since replaced its as-of totals by
\* all-time totals that differ from them.
C18_Witness ==
  /\ last_result.op = "generate_net_worth_snapshot"
  /\ last_result.ok
  /\ today = 20250131
  /\ \E o \in snapshots : o.snapshot_date = 20241231
  /\ \E r \in snapshots :
       /\ RowsDated(snapshots, CurrentMonthEnd) = {r}
       /\ r = SnapshotRow(r.id, CurrentMonthEnd, calc_net_worth_at(DB, NULL))
       /\ r # SnapshotRow(r.id, CurrentMonthEnd, calc_net_worth_at(DB, CurrentMonthEnd))


HistoryStep == last_result'.op = "get_net_worth_history"

AssetSum(as_of) ==
  SumOver(AccountsOfType(DB, "ASSET"),
          [a \in AccountsOfType(DB, "ASSET") |-> balance_as_of(DB, a, as_of)])

LiabilitySum(as_of) ==
  SumOver(AccountsOfType(DB, "LIABILITY"),
          [a \in AccountsOfType(DB, "LIABILITY") |-> Max(0, 0 - balance_as_of(DB, a, as_of))])

\* The totals of a figure are the two sums of the claim, to the cent, and the
\* liabilities are not negative.
TotalsAsOf(figure, as_of) ==
  /\ figure.total_assets = RoundToCents(AssetSum(as_of), 1)
  /\ figure.total_liabilities = RoundToCents(LiabilitySum(as_of), 1)
  /\ figure.total_liabilities >= 0

\* C19 as stated: every figure of get_net_worth_history and every snapshot
\* written by generate or backfill has total_assets = sum of ASSET balances as
\* of its date, total_liabilities = sum of max(0, -balance) over LIABILITY
\* accounts, never negative, and net_worth = total_assets - total_liabilities.
C19_NetWorthExact ==
  [][/\ HistoryStep =>
          \A k \in 1..HistoryMonths :
            LET figure == last_result'.id[k] IN
              /\ TotalsAsOf(figure, HistoryTargetDate(today, HistoryMonths - k))
              /\ figure.net_worth = figure.total_assets - figure.total_liabilities
     /\ GenerateStep =>
          \A r \in RowsDated(snapshots', CurrentMonthEnd) :
            /\ TotalsAsOf(r, NULL)
            /\ r.net_worth = r.total_assets - r.total_liabilities
     /\ BackfillStep =>
          \A r \in snapshots' \ snapshots :
            /\ TotalsAsOf(r, r.snapshot_date)
            /\ r.net_worth = r.total_assets - r.total_liabilities]_vars


\* The day-of-month d moved into month (y, m), clamped to the month's length.
ClampedDate(y, m, d) == y * 10000 + m * 100 + Min(d, DaysInMonth(y, m))

\* C20: the window end of a MONTHLY budget is the start date plus one month
\* with the day clamped to the target month's last day, that of a YEARLY budget
\* the start date plus one year; the computation succeeds and the end is after
\* the start date.
C20_BudgetWindow ==
  [][last_result'.op = "get_budget_status" =>
       LET start_date == last_result'.input.start_date
           end_date == last_result'.id
       IN /\ last_result'.ok
          /\ end_date > start_date
          /\ last_result'.input.period = "MONTHLY" =>
               end_date = IF Month(start_date) = 12
                          THEN ClampedDate(Year(start_date) + 1, 1, Day(start_date))
                          ELSE ClampedDate(Year(start_date), Month(start_date) + 1, Day(start_date))
          /\ last_result'.input.period = "YEARLY" =>
               end_date = ClampedDate(Year(start_date) + 1, Month(start_date), Day(start_date))]_vars


\* The categories a budget on category_id covers: itself and its direct
\* children.
CoveredCategories(category_id) ==
  {category_id} \cup {c.id : c \in {k \in categories : k.parent_id = category_id}}

\* C21: get_budget_status reports as spent the sum of the amounts of the
\* EXPENSE transactions dated from start_date up to but not including the
\* window end whose category is the budget's or a direct child of it; nothing
\* else is counted.
C21_BudgetSpend ==
  (last_result.op = "get_budget_status" /\ last_result.ok) =>
    LET status == last_result.id
        counted == {t \in transactions :
                      /\ t.type = "EXPENSE"
                      /\ status.budget.start_date <= t.date
                      /\ t.date < status.end_date
                      /\ t.category_id \in CoveredCategories(status.budget.category_id)}
    IN status.spent_amount = SumOver(counted, [t \in counted |-> t.amount])

\* The Food budget is reported with a counted Groceries expense while an
\* expense on the window end and one in Organic, a grandchild, are stored.
C21_Witness ==
  /\ last_result.op = "get_budget_status"
  /\ last_result.ok
  /\ last_result.id.budget.category_id = FoodCategory
  /\ last_result.id.spent_amount > 0
  /\ \E t \in transactions : /\ t.type = "EXPENSE" /\ t.category_id = Groceries
                             /\ t.date >= FoodBudgetStart /\ t.date < last_result.id.end_date
  /\ \E t \in transactions : /\ t.type = "EXPENSE" /\ t.category_id = FoodCategory
                             /\ t.date = last_result.id.end_date
  /\ \E t \in transactions : /\ t.type = "EXPENSE" /\ t.category_id = Organic
                             /\ t.date >= FoodBudgetStart /\ t.date < last_result.id.end_date


ParentOf(c) == {p \in categories : p.id = c.parent_id}

\* The categories reached from c by following parent_id at most n times.
RECURSIVE AncestorsWithin(_, _)
AncestorsWithin(c, n) ==
  IF n = 0 THEN {}
  ELSE ParentOf(c) \cup UNION {AncestorsWithin(p, n - 1) : p \in ParentOf(c)}

\* C22: the category tree has one level of nesting and no cycle: no category
\* is its own ancestor, and no category that has a parent is the parent of
\* another category.
C22_SingleLevelTree ==
  \A c \in categories :
    /\ c \notin AncestorsWithin(c, Cardinality(categories))
    /\ c.parent_id # NULL => \A k \in categories : k.parent_id # c.id

\* C23: delete_account on an account that a transaction uses as source or
\* destination, and delete_category on a category that has transactions or
\* child categories, return an error with a message and leave every table
\* unchanged.
C23_DeleteRefused ==
  [][/\ (/\ last_result'.op = "delete_account"
         /\ \E t \in transactions : \/ t.account_id = last_result'.input.account_id
                                    \/ t.to_account_id = last_result'.input.account_id)
          => ~last_result'.ok /\ last_result'.err # "" /\ UNCHANGED StoreVars
     /\ (/\ last_result'.op = "delete_category"
         /\ \/ \E t \in transactions : t.category_id = last_result'.input.category_id
            \/ \E c \in categories : c.parent_id = last_result'.input.category_id)
          => ~last_result'.ok /\ last_result'.err # "" /\ UNCHANGED StoreVars]_vars

\* A category with a child and no transaction has just been refused, in a
\* store where the destination account of a transfer could not be deleted
\* either.
C23_Witness ==
  /\ last_result.op = "delete_category"
  /\ ~last_result.ok
  /\ \E c \in categories : c.parent_id = last_result.input.category_id
  /\ ~\E t \in transactions : t.category_id = last_result.input.category_id
  /\ \E t \in transactions : t.to_account_id = CardAccount
  /\ \E a \in accounts : a.id = CardAccount


UpdateStep == last_result'.op = "update_transaction"

\* C24: update_transaction leaves the amount, kind and accounts of the target
\* transaction, all journal entries and every other transaction as they were,
\* so the all-time balance of every account is unchanged.
C24_UpdateFrame ==
  [][UpdateStep =>
       /\ journal_entries' = journal_entries
       /\ {t.id : t \in transactions'} = {t.id : t \in transactions}
       /\ \A t \in transactions : \A u \in transactions' :
            u.id = t.id =>
              /\ u.amount = t.amount /\ u.type = t.type
              /\ u.account_id = t.account_id /\ u.to_account_id = t.to_account_id
              /\ t.id # last_result'.input.id => u = t
       /\ \A a \in accounts : current_balance(DB, a)' = current_balance(DB, a)]_vars

NoOrphanedPostings ==
  \A e \in journal_entries : \E t \in transactions : t.id = e.transaction_id

DeleteStep == last_result'.op = "delete_transaction" /\ last_result'.ok

\* C25: every journal entry belongs to a stored transaction in every state,
\* and a successful delete_transaction removes exactly the transaction and its
\* journal entries, so each balance loses exactly that transaction's postings.
C25_DeleteCascades ==
  /\ []NoOrphanedPostings
  /\ [][DeleteStep =>
          /\ transactions' = {t \in transactions : t.id # last_result'.input.transaction_id}
          /\ journal_entries' = {e \in journal_entries :
                                   e.transaction_id # last_result'.input.transaction_id}
          /\ \A a \in accounts :
               current_balance(DB, a)' =
                 current_balance([DB EXCEPT !.journal_entries =
                                    {e \in @ : e.transaction_id
                                                 # last_result'.input.transaction_id}], a)]_vars

\* A transfer has been deleted with its two postings while another
\* transaction and its posting remain.
C25_Witness ==
  /\ last_result.op = "delete_transaction"
  /\ last_result.ok
  /\ last_result.input.transaction_id <= txn_seq
  /\ ~TransactionExists(DB, last_result.input.transaction_id)
  /\ Cardinality(journal_entries) < je_seq - 1
  /\ transactions # {}
  /\ journal_entries # {}

\* The balance of an account counting the postings of transactions 1..k only.
BalanceUpToTxn(account, k) ==
  current_balance([DB EXCEPT !.journal_entries = {e \in @ : e.transaction_id <= k}], account)

IsRoundTrip(t1, t2) ==
  /\ t2.id = t1.id + 1
  /\ t1.type = "INCOME" /\ t2.type = "EXPENSE"
  /\ t1.account_id = t2.account_id /\ t1.amount = t2.amount

\* C26: an INCOME of X followed by an EXPENSE of X on the same account brings
\* the account's balance back to what it was before the two postings, which is
\* initial_balance when they are the account's only postings.
C26_RoundTrip ==
  \A t1, t2 \in transactions :
    IsRoundTrip(t1, t2) =>
      \A a \in accounts :
        a.id = t1.account_id =>
          /\ t1.amount > 0
          /\ BalanceUpToTxn(a, t2.id) = BalanceUpToTxn(a, t1.id - 1)
          /\ BalanceUpToTxn(a, t1.id) = BalanceUpToTxn(a, t1.id - 1) + t1.amount
          /\ EntriesOf(DB, a.id) = {e \in EntriesOf(DB, a.id) : e.transaction_id \in {t1.id, t2.id}}
               => current_balance(DB, a) = a.initial_balance

\* A round trip on the card that follows another posting on it.
C26_Witness ==
  \E t1, t2 \in transactions :
    /\ IsRoundTrip(t1, t2)
    /\ t1.account_id = CardAccount
    /\ t1.id > 1
    /\ \E e \in EntriesOf(DB, CardAccount) : e.transaction_id < t1.id

\* C29: no stored transaction carries a date that is not a calendar date.
C29_DatesWellFormed ==
  \A t \in transactions : IsCalendarDate(t.date)

\* ------------------------------------------------- balance history claims
HistoryAnswered == last_result.op = "get_account_balance_history" /\ last_result.ok
WindowDays(start, end) == {d \in start..end : IsCalendarDate(d)}
EndOfDayBalance(account_id, d) ==
  balance_as_of(DB, CHOOSE a \in accounts : a.id = account_id, d)
MaxOf(S) == CHOOSE x \in S : \A y \in S : y <= x
MinOf(S) == CHOOSE x \in S : \A y \in S : x <= y

\* C27 (as stated): get_account_balance_history returns highest_balance and
\* lowest_balance equal to the maximum and minimum, and average_daily_balance
\* equal to the mean (to the cent), of the account's end-of-day balances over
\* exactly the calendar days of [start, end], with opening_balance the balance
\* as of the day before start and closing_balance the balance as of end.
C27_BalanceHistory ==
  (HistoryAnswered /\ last_result.input.start_date <= last_result.input.end_date) =>
    LET acc == last_result.input.account_id
        days == WindowDays(last_result.input.start_date, last_result.input.end_date)
        eod == [d \in days |-> EndOfDayBalance(acc, d)]
        r == last_result.id
    IN /\ r.highest_balance = RoundToCents(MaxOf({eod[d] : d \in days}), 1)
       /\ r.lowest_balance = RoundToCents(MinOf({eod[d] : d \in days}), 1)
       /\ r.average_daily_balance = RoundToCents(SumOver(days, eod), Cardinality(days))
       /\ r.opening_balance
            = RoundToCents(EndOfDayBalance(acc, PredDay(last_result.input.start_date)), 1)
       /\ r.closing_balance
            = RoundToCents(EndOfDayBalance(acc, last_result.input.end_date), 1)

\* The month ends a backfill started now on an empty table walks through.
BackfillMonths ==
  {d \in MonthEnds : MonthIndex(EarliestTxnDate) <= MonthIndex(d) /\ d <= today}

\* C28 (as stated, for backfill_net_worth_snapshots): a failure while
\* computing or inserting one month is caught for that month only, so a
\* backfill that reports a failure has still stored every other month end it
\* walks through: at most the one failed month is missing afterwards.
C28_FailureIsolated ==
  [][BackfillStep /\ snapshots = {} /\ transactions # {} /\ ~last_result'.ok =>
       Cardinality(BackfillMonths \ {r.snapshot_date : r \in snapshots'}) <= 1]_vars

\* ----------------------------------------------------------- restore claims
RestoreStep == last_result'.op = "restore_from_backup" /\ last_result'.ok

Bijections(A, B) == {f \in [A -> B] : \A b \in B : \E a \in A : f[a] = b}

\* The id a reference is renumbered to; NULL stays NULL.
Renumbered(map, id) ==
  IF id = NULL THEN NULL ELSE IF id \in DOMAIN map THEN map[id] ELSE 0 - 1

\* C30 (as stated): restoring the backup export_full_backup produces from the
\* current ledger gives the same accounts, categories, budgets and
\* transactions up to a renumbering of the account and category ids (budget
\* and transaction rows compared without their own ids, with multiplicity),
\* journal entries that are the Poster's entries of the restored
\* transactions, and the same balance for every account.
C30_RestoreRoundTrip ==
  [][RestoreStep =>
       \E am \in Bijections({a.id : a \in accounts}, {a.id : a \in accounts'}),
          cm \in Bijections({c.id : c \in categories}, {c.id : c \in categories'}) :
         LET OldTxn(t) == [t EXCEPT !.id = 0, !.account_id = am[@],
                                    !.to_account_id = Renumbered(am, @),
                                    !.category_id = Renumbered(cm, @)]
             NewTxn(t) == [t EXCEPT !.id = 0]
             OldBudget(b) == [b EXCEPT !.id = 0, !.category_id = Renumbered(cm, @)]
             NewBudget(b) == [b EXCEPT !.id = 0]
             old_txns == {OldTxn(t) : t \in transactions}
             old_budgets == {OldBudget(b) : b \in budgets}
         IN /\ accounts' = {[a EXCEPT !.id = am[@]] : a \in accounts}
            /\ categories'
                 = {CategoryRow(cm[c.id], Renumbered(cm, c.parent_id), c.type) : c \in categories}
            /\ {NewTxn(t) : t \in transactions'} = old_txns
            /\ \A row \in old_txns :
                 Cardinality({t \in transactions' : NewTxn(t) = row})
                   = Cardinality({t \in transactions : OldTxn(t) = row})
            /\ {NewBudget(b) : b \in budgets'} = old_budgets
            /\ \A row \in old_budgets :
                 Cardinality({b \in budgets' : NewBudget(b) = row})
                   = Cardinality({b \in budgets : OldBudget(b) = row})
            /\ \A t \in transactions' :
                 LET es == {e \in journal_entries' : e.transaction_id = t.id} IN
                   \E je0 \in 0..je_seq' :
                     es = {PosterEntries(t.type, t.id, t.account_id, t.to_account_id,
                                         t.amount, je0)[i] :
                             i \in 1..Len(PosterEntries(t.type, t.id, t.account_id,
                                                        t.to_account_id, t.amount, je0))}
            /\ \A a \in accounts :
                 \A b \in accounts' :
                   b.id = am[a.id] => current_balance(DB', b) = current_balance(DB, a)]_vars

\* ------------------------------------------------- settlement ledger claims
PaidOnStatements(card) ==
  LET rows == CardStatements(DB, card.id) IN SumOver(rows, [s \in rows |-> s.paid_amount])

TransfersInto(account_id) ==
  LET rows == {t \in transactions : t.type = "TRANSFER" /\ t.to_account_id = account_id}
  IN SumOver(rows, [t \in rows |-> t.amount])

\* C31 (as stated): for every card, the paid_amount summed over the card's
\* statements is at most the sum of the amounts of the TRANSFER transactions
\* into the card account that exist in the ledger.
C31_PaidBackedByLedger ==
  \A card \in settings : PaidOnStatements(card) <= TransfersInto(card.account_id)

\* ---------------------------------------------------- statement span claims
\* C32 (as stated): for every card with statements, over the span from the
\* first statement's cycle_start to the latest statement's cycle_end, the
\* statements' total_charges add up to the EXPENSE rows on the card account
\* dated in the span and their total_payments to the TRANSFER rows into it
\* (each row counted in exactly one statement), and the latest closing_balance
\* is the first opening_balance plus those charges minus those payments.
C32_StatementsCoverSpan ==
  \A card \in settings :
    LET mine == CardStatements(DB, card.id) IN
      mine # {} =>
        LET first == CHOOSE s \in mine : \A o \in mine : s.cycle_start_date <= o.cycle_start_date
            latest == CHOOSE s \in mine : \A o \in mine : o.cycle_end_date <= s.cycle_end_date
            keep == [d \in TxnDates(DB) |->
                       InRange(d, first.cycle_start_date, latest.cycle_end_date)]
            charges == ChargesWhere(DB, card.account_id, keep)
            paid == PaymentsWhere(DB, card.account_id, keep)
        IN /\ SumOver(mine, [s \in mine |-> s.total_charges]) = charges
           /\ SumOver(mine, [s \in mine |-> s.total_payments]) = paid
           /\ latest.closing_balance = first.opening_balance + charges - paid

\* ---------------------------------------------------- auto-settlement claims
AutoSettledStep == last_result'.op = "process_auto_settlements" /\ last_result'.id > 0

\* The statements process_auto_settlements can pick for the card: status OPEN
\* or CLOSED, earliest due_date.
AutoSettlementTargets(card) ==
  LET candidates == {s \in CardStatements(DB, card.id) : s.status \in {"OPEN", "CLOSED"}}
  IN {s \in candidates : \A o \in candidates : s.due_date <= o.due_date}

\* C33 (as stated): whenever process_auto_settlements settles a card, the
\* statement it targeted (oldest due in status OPEN or CLOSED) is PAID
\* afterwards.
C33_TargetPaid ==
  [][AutoSettledStep =>
       \A card \in AutoSettlementCards(DB) :
         AutoSettlementTargets(card) # {} =>
           \E target \in AutoSettlementTargets(card) :
             \E s \in statements' : s.id = target.id /\ s.status = "PAID"]_vars

StatementGenerated(id) == \E s \in statements : s.id = id
StatementPaid(id) == \E s \in statements : s.id = id /\ s.status = "PAID"

\* C34 (as stated): with process_auto_settlements run on every payment due day
\* and every settlement succeeding, every statement of the card that exists
\* while a payment due day is still to come eventually reaches PAID.
C34_EventuallyPaid ==
  \A id \in 1..MaxStatements :
    (StatementGenerated(id) /\ today < LastDay) ~> StatementPaid(id)

\* ------------------------------------------------ interleaved settlement claims
BothReturned == \A c \in SettleCalls : calls[c].pc = "done"

\* The statements as they were before the two calls: nothing paid yet.
UnpaidStatements ==
  {[s EXCEPT !.paid_amount = StatementDefaults.paid_amount,
             !.status = StatementDefaults.status,
             !.paid_date = StatementDefaults.paid_date] : s \in statements}

\* The statements after the payments of call a and then call b, each run
\* from its first to its last store access.
SerialStatements(a, b) ==
  LET db0 == [DB EXCEPT !.statements = UnpaidStatements]
      first == {update_statement_payment_status(
                  db0, TheCard, calls[a].payment_amount, calls[a].paid_date, order, 0).db
                : order \in SortedByDue(OpenStatements(db0, TheCard))}
  IN UNION {{update_statement_payment_status(
               db1, TheCard, calls[b].payment_amount, calls[b].paid_date, order, 0).db.statements
             : order \in SortedByDue(OpenStatements(db1, TheCard))} : db1 \in first}

\* C35 (as stated): when the two settle_credit_card calls have both returned,
\* the statements are those of one of the two serial orders.
C35_Serializable ==
  BothReturned => statements \in SerialStatements(1, 2) \cup SerialStatements(2, 1)

\* ------------------------------------------------ recurring transaction claims
RecurringRun ==
  /\ last_result'.op = "process_recurring_transactions"
  /\ last_result'.input.fail_row = 0

\* The due items the run left with one more execution and either a later
\* next_execution_date or switched off.
MovedOn ==
  {r \in DueRecurring(recurring_transactions, today) :
     \E q \in recurring_transactions' :
       /\ q.id = r.id
       /\ q.execution_count = r.execution_count + 1
       /\ q.next_execution_date > r.next_execution_date \/ q.is_active = 0}

\* C36 (as stated): a run of process_recurring_transactions in which no store
\* access fails posts one transaction for every due item and moves every
\* item it posted for on (execution_count + 1, next_execution_date advanced or
\* the item deactivated).
C36_PostedAndMovedOn ==
  [][RecurringRun =>
       /\ txn_seq' - txn_seq = Cardinality(MovedOn)
       /\ MovedOn = DueRecurring(recurring_transactions, today)]_vars

\* ------------------------------------------------ installment plan claims
\* C37 (as stated): every plan has installments_paid <= num_installments and
\* 0 <= total_paid <= total_amount, every recorded payment has amount > 0, and
\* a COMPLETED plan has total_paid = total_amount.
C37_PlanNumbers ==
  /\ \A p \in plans :
       /\ p.installments_paid <= p.num_installments
       /\ 0 <= p.total_paid /\ p.total_paid <= p.total_amount
       /\ p.status = "COMPLETED" => p.total_paid = p.total_amount
  /\ \A pay \in payments : pay.amount > 0

TerminalStatuses == {"COMPLETED", "CANCELLED"}
PaymentsOf(S, plan_id) == {pay \in S : pay.installment_plan_id = plan_id}

\* C38 (as stated): once a plan is COMPLETED or CANCELLED no operation changes
\* its status or posts a payment for it.
C38_TerminalStays ==
  [][\A p \in plans :
       p.status \in TerminalStatuses =>
         /\ \E q \in plans' : q.id = p.id /\ q.status = p.status
         /\ PaymentsOf(payments', p.id) = PaymentsOf(payments, p.id)
         /\ (last_result'.op = "process_installment_payment"
             /\ last_result'.input.plan_id = p.id) => transactions' = transactions]_vars

\* ------------------------------------------------ snapshot order claims
SnapshotFacts(db) ==
  {[snapshot_date |-> r.snapshot_date, total_assets |-> r.total_assets,
    total_liabilities |-> r.total_liabilities, net_worth |-> r.net_worth] : r \in db.snapshots}

GenerateThenBackfill ==
  backfill_net_worth_snapshots(generate_net_worth_snapshot(DB, today, 0).db, today, 0).db

BackfillThenGenerate ==
  generate_net_worth_snapshot(backfill_net_worth_snapshots(DB, today, 0).db, today, 0).db

\* C39 (as stated): starting from an empty snapshot table, running
\* generate_net_worth_snapshot and backfill_net_worth_snapshots in either order
\* leaves the same snapshot dates and figures.
C39_OrderIrrelevant ==
  snapshots = {} => SnapshotFacts(GenerateThenBackfill) = SnapshotFacts(BackfillThenGenerate)

\* ------------------------------------------------ PIN lock claims
LockedOut == app_settings.lockout_until # NULL /\ now < app_settings.lockout_until
PinCommands == {"set_pin", "verify_pin", "remove_pin"}

\* C40 (as stated): no more than MAX_FAILED_ATTEMPTS incorrect guesses are
\* compared with the stored PIN between lockouts, whichever command carries
\* them, and during a lockout the three commands reject without comparing.
C40_GuessesLimited ==
  [][/\ guesses' <= MAX_FAILED_ATTEMPTS
     /\ (LockedOut /\ app_settings.pin_hash # <<>>
           /\ last_result'.op \in PinCommands /\ last_result'.input.pin # NoCurrentPin)
          => ~last_result'.ok /\ ~last_result'.input.compared]_vars
====
